---- MODULE Spec2Model ----
(***************************************************************************)
(* A model of the ESP32 Logger: the tag-level table, the rate limiter, the *)
(* buffer pool, the console backends and the logging operations of         *)
(* src/src/Logger.cpp, Logger.h and the backend headers.                    *)
(*                                                                         *)
(* The sequential specifications (Spec, SpecRate, SpecRolling) take one    *)
(* logging or configuration call per step, made by a single caller task on *)
(* a logger constructed after the scheduler started.  The concurrent       *)
(* specifications follow each task through the statements of the code.     *)
(***************************************************************************)
EXTENDS Integers, Sequences, FiniteSets, TLC

(***************************************************************************)
(* Levels (esp_log_level_t, as named by Logger::levelToString)             *)
(***************************************************************************)
ESP_LOG_NONE == 0
ESP_LOG_ERROR == 1
ESP_LOG_WARN == 2
ESP_LOG_INFO == 3
ESP_LOG_DEBUG == 4
ESP_LOG_VERBOSE == 5
Levels == ESP_LOG_NONE..ESP_LOG_VERBOSE

(***************************************************************************)
(* Program constants.  CONFIG_LOG_MAX_TAGS, CONFIG_LOG_BUFFER_POOL_SIZE,   *)
(* RATE_LIMIT_WINDOW_MS and TimerMod (2^32 in the code) are scaled down to *)
(* keep the state space finite; CONFIG_LOG_SUBSCRIBER_TAG_SIZE,            *)
(* MAX_SUBSCRIBERS and the backend constants keep the value of the source. *)
(***************************************************************************)
CONFIG_LOG_SUBSCRIBER_TAG_SIZE == 32
CONFIG_LOG_MAX_TAGS == 2
CONFIG_LOG_BUFFER_POOL_SIZE == 2
MAX_SUBSCRIBERS == 4
MIN_BUFFER_SPACE == 20
TRUNCATION_MARKER_LEN == 5
RATE_LIMIT_WINDOW_MS == 3
TimerMod == 8

(***************************************************************************)
(* Bounds of the model                                                     *)
(***************************************************************************)
MaxDropped == 3         \* droppedLogs is followed up to this value
MaxRate == 2            \* setMaxLogsPerSecond is called with 0..MaxRate
BurstSpan == 1          \* a burst lasts at most this many time units
MaxBurst == 4           \* a burst has at most this many calls
MsgLen == 2             \* bytes of a message written to a backend
MaxWrites == 1          \* messages a task writes to the synchronized backend
MaxAvail == 22          \* Serial.availableForWrite() is 0..MaxAvail
MaxLength == 26         \* the longest message written to a backend
MaxDroppedBytes == 40   \* droppedBytes is followed up to this value
HeapCap == 2            \* transient buffers malloc can hand out at a time

Min(a, b) == IF a < b THEN a ELSE b

(***************************************************************************)
(* Tags are C strings: sequences of non-zero characters.  NullTag is the   *)
(* null pointer (no C string holds the character 0).  LongTag has          *)
(* CONFIG_LOG_SUBSCRIBER_TAG_SIZE characters, so setTagLevel stores it     *)
(* truncated.                                                              *)
(***************************************************************************)
NullTag == <<0>>
EmptyTag == << >>
TagA == <<1>>
TagB == <<2>>
LongTag == [i \in 1..CONFIG_LOG_SUBSCRIBER_TAG_SIZE |-> 1]
SetTags == {EmptyTag, TagA, LongTag}
\* The levels setTagLevel is called with: silence the tag, errors only,
\* more detail than the default global level.
SetTagLevels == {ESP_LOG_NONE, ESP_LOG_ERROR, ESP_LOG_DEBUG}
LogTags == {NullTag, TagA, TagB, LongTag}

NoLevel == ESP_LOG_VERBOSE + 1
NoTask == "nobody"
Tasks == {"t1", "t2", "t3"}
Mutexes == {"backendMutex", "subscriberMutex", "tagMutex", "rateLimitMutex", "poolMutex",
            "serialMutex", "writeMutex_"}
Backends == {"b1", "b2"}
Callbacks == {"cb1", "cb2"}

VARIABLES
    hasMutex,           \* the logger's four mutexes were created (scheduler started)
    poolMutex,          \* the buffer pool's mutex was created
    mutexOwner,         \* mutex -> the task holding it, or NoTask
    isLoggingEnabled, globalLogLevel,
    tagLevels_,         \* the first tagLevelCount_ entries of the array
    maxLogsPerSecond, lastLogTime, logCounter, droppedLogs, mutexTimeouts_,
    backends, subscribers,
    subscriberQueue,    \* [exists, items]: the notification queue
    now,                \* millis()
    pool,               \* BufferPool: slot -> inUse
    heapUsed,           \* transient buffers currently allocated
    lastCall, prevCall, \* the last two logging or query calls and what they did
    override,           \* tag -> the level setTagLevel last set for it
    burst,              \* the calls of the burst in progress
    recent,             \* age -> calls admitted that many time units ago
    pc,                 \* task -> where it is in the call it is making
    local,              \* task -> the local variables of that call
    serial,             \* the bytes the last write put on the transport
    available,          \* Serial.availableForWrite()
    nbStats,            \* NonBlockingConsoleBackend: its three counters
    mutexInitialized,   \* SynchronizedConsoleBackend::mutexInitialized
    worker,             \* the subscriber task: its handle, its running flag, its position
    tsStats,            \* ThreadSafeNonBlockingBackend: its four counters
    serialMutex,        \* the shared static mutex handle (0 is nullptr)
    semaphores,         \* the mutexes created by the backends and not deleted
    invoked             \* the subscriber callbacks invoked so far, in order

taskVars == <<pc, local, serial, available, nbStats, mutexInitialized, worker,
              tsStats, serialMutex, semaphores, invoked>>
codeVars == <<taskVars, hasMutex, poolMutex, mutexOwner, isLoggingEnabled, globalLogLevel, tagLevels_,
              maxLogsPerSecond, lastLogTime, logCounter, droppedLogs, mutexTimeouts_,
              backends, subscribers, subscriberQueue, now, pool, heapUsed>>
obsVars == <<lastCall, prevCall, override, burst, recent>>
vars == <<codeVars, obsVars>>

(***************************************************************************)
(* strncmp(a, b, n) == 0: the strings agree on their first n characters,   *)
(* the terminating NUL included.                                           *)
(***************************************************************************)
CStr(s, n) == [i \in 1..n |-> IF i <= Len(s) THEN s[i] ELSE 0]
StrNCmpEq(a, b, n) == CStr(a, n) = CStr(b, n)

\* The copy setTagLevel stores: memcpy of tagLen characters, then NUL.
StoredTag(tag) ==
    SubSeq(tag, 1, IF Len(tag) >= CONFIG_LOG_SUBSCRIBER_TAG_SIZE
                   THEN CONFIG_LOG_SUBSCRIBER_TAG_SIZE - 1 ELSE Len(tag))

\* The linear scan of setTagLevel, getTagLevel and isLevelEnabledForTag:
\* the index of the first entry that compares equal, 0 if there is none.
FindTag(table, tag) ==
    LET hits == {i \in 1..Len(table) :
                    StrNCmpEq(table[i].tag, tag, CONFIG_LOG_SUBSCRIBER_TAG_SIZE)}
    IN IF hits = {} THEN 0 ELSE CHOOSE i \in hits : \A j \in hits : i <= j

\* xSemaphoreTake by the caller of a sequential call: it gets the mutex
\* unless another task holds it for longer than the timeout.
TakeOk(m) == mutexOwner[m] = NoTask

\* The lambda doSetTagLevel.
DoSetTagLevel(table, tag, level) ==
    LET i == FindTag(table, tag)
    IN IF i # 0 THEN [table EXCEPT ![i].level = level]
       ELSE IF Len(table) < CONFIG_LOG_MAX_TAGS
            THEN Append(table, [tag |-> StoredTag(tag), level |-> level])
            ELSE table

GetTagLevel(tag) ==
    IF tag = NullTag THEN globalLogLevel
    ELSE IF ~hasMutex THEN globalLogLevel
    ELSE IF TakeOk("tagMutex")
         THEN LET i == FindTag(tagLevels_, tag)
              IN IF i # 0 THEN tagLevels_[i].level ELSE globalLogLevel
         ELSE globalLogLevel

IsLevelEnabledForTag(tag, level) ==
    IF ~isLoggingEnabled THEN FALSE
    ELSE IF level = ESP_LOG_NONE THEN FALSE
    ELSE IF tag = NullTag THEN level <= globalLogLevel
    ELSE LET effectiveLevel ==
                 IF hasMutex /\ TakeOk("tagMutex")
                 THEN LET i == FindTag(tagLevels_, tag)
                      IN IF i # 0 THEN tagLevels_[i].level ELSE globalLogLevel
                 ELSE globalLogLevel
         IN level <= effectiveLevel

(***************************************************************************)
(* Logger::checkRateLimit: whether the call is admitted, and the limiter   *)
(* state it leaves.  elapsed is an unsigned 32-bit difference in the code. *)
(***************************************************************************)
\* checkRateLimit with the comparison logCounter <= maxPerSec.
CheckRateLimit_OffByOne ==
    LET same == [allowed |-> TRUE, opened |-> FALSE, lastLogTime |-> lastLogTime,
                 logCounter |-> logCounter, droppedLogs |-> droppedLogs,
                 mutexTimeouts_ |-> mutexTimeouts_]
        elapsed == (now - lastLogTime) % TimerMod
    IN IF maxLogsPerSecond = 0 THEN same
       ELSE IF elapsed >= RATE_LIMIT_WINDOW_MS
            THEN [same EXCEPT !.opened = TRUE, !.lastLogTime = now, !.logCounter = 1]
            ELSE IF logCounter <= maxLogsPerSecond
                 THEN [same EXCEPT !.logCounter = logCounter + 1]
                 ELSE [same EXCEPT !.allowed = FALSE,
                                   !.droppedLogs = droppedLogs + 1]

\* checkRateLimit with the new window's counter starting at 0.
CheckRateLimit_ResetToZero ==
    LET same == [allowed |-> TRUE, opened |-> FALSE, lastLogTime |-> lastLogTime,
                 logCounter |-> logCounter, droppedLogs |-> droppedLogs,
                 mutexTimeouts_ |-> mutexTimeouts_]
        elapsed == (now - lastLogTime) % TimerMod
    IN IF maxLogsPerSecond = 0 THEN same
       ELSE IF elapsed >= RATE_LIMIT_WINDOW_MS
            THEN [same EXCEPT !.opened = TRUE, !.lastLogTime = now, !.logCounter = 0]
            ELSE IF logCounter < maxLogsPerSecond
                 THEN [same EXCEPT !.logCounter = logCounter + 1]
                 ELSE [same EXCEPT !.allowed = FALSE,
                                   !.droppedLogs = droppedLogs + 1]

\* checkRateLimit admitting the call when rateLimitMutex times out.
CheckRateLimit_FailsOpen ==
    LET same == [allowed |-> TRUE, opened |-> FALSE, lastLogTime |-> lastLogTime,
                 logCounter |-> logCounter, droppedLogs |-> droppedLogs,
                 mutexTimeouts_ |-> mutexTimeouts_]
        elapsed == (now - lastLogTime) % TimerMod
    IN IF maxLogsPerSecond = 0 THEN same
       ELSE IF ~hasMutex THEN same
       ELSE IF TakeOk("rateLimitMutex")
            THEN IF elapsed >= RATE_LIMIT_WINDOW_MS
                 THEN [same EXCEPT !.opened = TRUE, !.lastLogTime = now, !.logCounter = 1]
                 ELSE IF logCounter < maxLogsPerSecond
                      THEN [same EXCEPT !.logCounter = logCounter + 1]
                      ELSE [same EXCEPT !.allowed = FALSE,
                                        !.droppedLogs = droppedLogs + 1]
            ELSE [same EXCEPT !.mutexTimeouts_ = mutexTimeouts_ + 1]

\* checkRateLimit without the early return for maxPerSec == 0.
CheckRateLimit_ZeroIsALimit ==
    LET same == [allowed |-> TRUE, opened |-> FALSE, lastLogTime |-> lastLogTime,
                 logCounter |-> logCounter, droppedLogs |-> droppedLogs,
                 mutexTimeouts_ |-> mutexTimeouts_]
        elapsed == (now - lastLogTime) % TimerMod
    IN IF ~hasMutex THEN same
       ELSE IF TakeOk("rateLimitMutex")
            THEN IF elapsed >= RATE_LIMIT_WINDOW_MS
                 THEN [same EXCEPT !.opened = TRUE, !.lastLogTime = now, !.logCounter = 1]
                 ELSE IF logCounter < maxLogsPerSecond
                      THEN [same EXCEPT !.logCounter = logCounter + 1]
                      ELSE [same EXCEPT !.allowed = FALSE,
                                        !.droppedLogs = droppedLogs + 1]
            ELSE [same EXCEPT !.allowed = FALSE,
                              !.mutexTimeouts_ = mutexTimeouts_ + 1]

\* checkRateLimit with the difference taken as a signed number, not modulo
\* 2^32.
CheckRateLimit_SignedElapsed ==
    LET same == [allowed |-> TRUE, opened |-> FALSE, lastLogTime |-> lastLogTime,
                 logCounter |-> logCounter, droppedLogs |-> droppedLogs,
                 mutexTimeouts_ |-> mutexTimeouts_]
        elapsed == now - lastLogTime
    IN IF maxLogsPerSecond = 0 THEN same
       ELSE IF ~hasMutex THEN same
       ELSE IF TakeOk("rateLimitMutex")
            THEN IF elapsed >= RATE_LIMIT_WINDOW_MS
                 THEN [same EXCEPT !.opened = TRUE, !.lastLogTime = now, !.logCounter = 1]
                 ELSE IF logCounter < maxLogsPerSecond
                      THEN [same EXCEPT !.logCounter = logCounter + 1]
                      ELSE [same EXCEPT !.allowed = FALSE,
                                        !.droppedLogs = droppedLogs + 1]
            ELSE [same EXCEPT !.allowed = FALSE,
                              !.mutexTimeouts_ = mutexTimeouts_ + 1]

CheckRateLimit ==
    LET same == [allowed |-> TRUE, opened |-> FALSE, lastLogTime |-> lastLogTime,
                 logCounter |-> logCounter, droppedLogs |-> droppedLogs,
                 mutexTimeouts_ |-> mutexTimeouts_]
        elapsed == (now - lastLogTime) % TimerMod
    IN IF maxLogsPerSecond = 0 THEN same
       ELSE IF ~hasMutex THEN same
       ELSE IF TakeOk("rateLimitMutex")
            THEN IF elapsed >= RATE_LIMIT_WINDOW_MS
                 THEN [same EXCEPT !.opened = TRUE, !.lastLogTime = now, !.logCounter = 1]
                 ELSE IF logCounter < maxLogsPerSecond
                      THEN [same EXCEPT !.logCounter = logCounter + 1]
                      ELSE [same EXCEPT !.allowed = FALSE,
                                        !.droppedLogs = droppedLogs + 1]
            ELSE [same EXCEPT !.allowed = FALSE,
                              !.mutexTimeouts_ = mutexTimeouts_ + 1]

(***************************************************************************)
(* BufferPool.  A buffer is a pool slot 1..CONFIG_LOG_BUFFER_POOL_SIZE, a   *)
(* transient heap buffer (HeapBuf) or the null pointer (NullBuf).          *)
(***************************************************************************)
Slots == 1..CONFIG_LOG_BUFFER_POOL_SIZE
HeapBuf == CONFIG_LOG_BUFFER_POOL_SIZE + 1
NullBuf == CONFIG_LOG_BUFFER_POOL_SIZE + 2

\* malloc(BUFFER_SIZE): null when the heap is exhausted.
Malloc(p, h) ==
    IF h < HeapCap THEN [buf |-> HeapBuf, pool |-> p, heap |-> h + 1]
    ELSE [buf |-> NullBuf, pool |-> p, heap |-> h]

\* The scan of BufferPool::acquire: the first slot whose flag flips false -> true.
FirstFree(p) ==
    LET free == {i \in Slots : ~p[i]}
    IN IF free = {} THEN 0 ELSE CHOOSE i \in free : \A j \in free : i <= j

Acquire(p, h) ==
    IF ~poolMutex THEN Malloc(p, h)
    ELSE IF TakeOk("poolMutex") /\ FirstFree(p) # 0
         THEN [buf |-> FirstFree(p), pool |-> [p EXCEPT ![FirstFree(p)] = TRUE],
               heap |-> h]
         ELSE Malloc(p, h)

Release(p, h, buf) ==
    IF buf = NullBuf THEN [pool |-> p, heap |-> h]
    ELSE IF buf \in Slots THEN [pool |-> [p EXCEPT ![buf] = FALSE], heap |-> h]
    ELSE [pool |-> p, heap |-> h - 1]

(***************************************************************************)
(* Logger::writeToBackends: the backends written, in order.                *)
(***************************************************************************)
WriteToBackends ==
    IF ~hasMutex THEN backends
    ELSE IF TakeOk("backendMutex") THEN backends
    ELSE << >>

(***************************************************************************)
(* Logger::notifySubscribers.  With a queue the notification is sent with  *)
(* no wait and dropped when the queue is full; without one the callbacks   *)
(* are copied under subscriberMutex and invoked on the caller's thread.    *)
(***************************************************************************)
CONFIG_LOG_SUBSCRIBER_QUEUE_SIZE == 2

NotifySubscribers(level, tag) ==
    IF Len(subscribers) = 0
    THEN [invoked |-> << >>, queue |-> subscriberQueue]
    ELSE IF subscriberQueue.exists
    THEN [invoked |-> << >>,
          queue |-> IF Len(subscriberQueue.items) < CONFIG_LOG_SUBSCRIBER_QUEUE_SIZE
                    THEN [subscriberQueue EXCEPT
                             !.items = Append(@, [level |-> level, tag |-> tag])]
                    ELSE subscriberQueue]
    ELSE IF hasMutex /\ TakeOk("subscriberMutex")
    THEN [invoked |-> subscribers, queue |-> subscriberQueue]
    ELSE [invoked |-> << >>, queue |-> subscriberQueue]

(***************************************************************************)
(* What a call did, as seen from outside.                                  *)
(***************************************************************************)
NoCall == [op |-> "none", level |-> ESP_LOG_NONE, tag |-> NullTag,
           passed |-> FALSE, admitted |-> FALSE, opened |-> FALSE,
           wrote |-> << >>, notified |-> << >>,
           dropped |-> 0, counterBefore |-> 0, ret |-> NoLevel]

(***************************************************************************)
(* Logger::log -> Logger::logV.  log filters, logV filters again, asks the *)
(* rate limiter, acquires the format buffer, notifies the subscribers,     *)
(* acquires the buffer of the full record, writes it to the backends and   *)
(* releases both buffers.                                                  *)
(***************************************************************************)
LogOutcome(level, tag) ==
    LET stay == [passed |-> FALSE, admitted |-> FALSE, opened |-> FALSE,
                 wrote |-> << >>, notified |-> << >>,
                 lastLogTime |-> lastLogTime, logCounter |-> logCounter,
                 droppedLogs |-> droppedLogs, mutexTimeouts_ |-> mutexTimeouts_,
                 queue |-> subscriberQueue, pool |-> pool, heap |-> heapUsed]
    IN IF ~IsLevelEnabledForTag(tag, level) THEN stay
       ELSE IF ~IsLevelEnabledForTag(tag, level) THEN stay
       ELSE LET r == CheckRateLimit
                limited == [stay EXCEPT !.passed = TRUE, !.opened = r.opened,
                                !.lastLogTime = r.lastLogTime,
                                !.logCounter = r.logCounter,
                                !.droppedLogs = r.droppedLogs,
                                !.mutexTimeouts_ = r.mutexTimeouts_]
            IN IF ~r.allowed THEN limited
               ELSE LET formatBuffer == Acquire(pool, heapUsed)
                    IN IF formatBuffer.buf = NullBuf
                       THEN [limited EXCEPT !.admitted = TRUE]
                       ELSE LET n == NotifySubscribers(level, tag)
                                fullMessage == Acquire(formatBuffer.pool, formatBuffer.heap)
                                w == IF fullMessage.buf # NullBuf
                                     THEN WriteToBackends ELSE << >>
                                r2 == Release(fullMessage.pool, fullMessage.heap,
                                              fullMessage.buf)
                                r1 == Release(r2.pool, r2.heap, formatBuffer.buf)
                            IN [limited EXCEPT !.admitted = TRUE, !.wrote = w,
                                    !.notified = n.invoked, !.queue = n.queue,
                                    !.pool = r1.pool, !.heap = r1.heap]

(***************************************************************************)
(* Logger::logDirect (non-null message): filter, notify, one buffer,       *)
(* write, release.  checkRateLimit is not called.                          *)
(***************************************************************************)
LogDirectOutcome(level, tag) ==
    LET stay == [passed |-> FALSE, admitted |-> FALSE, opened |-> FALSE,
                 wrote |-> << >>, notified |-> << >>,
                 lastLogTime |-> lastLogTime, logCounter |-> logCounter,
                 droppedLogs |-> droppedLogs, mutexTimeouts_ |-> mutexTimeouts_,
                 queue |-> subscriberQueue, pool |-> pool, heap |-> heapUsed]
    IN IF ~IsLevelEnabledForTag(tag, level) THEN stay
       ELSE LET n == NotifySubscribers(level, tag)
                fullMessage == Acquire(pool, heapUsed)
                w == IF fullMessage.buf # NullBuf THEN WriteToBackends ELSE << >>
                r1 == Release(fullMessage.pool, fullMessage.heap, fullMessage.buf)
            IN [stay EXCEPT !.passed = TRUE, !.wrote = w,
                    !.notified = n.invoked, !.queue = n.queue,
                    !.pool = r1.pool, !.heap = r1.heap]

\* The state a logging call leaves, and the record of the call.
Apply(op, level, tag, o) ==
    /\ lastLogTime' = o.lastLogTime
    /\ logCounter' = o.logCounter
    /\ droppedLogs' = o.droppedLogs
    /\ mutexTimeouts_' = o.mutexTimeouts_
    /\ subscriberQueue' = o.queue
    /\ pool' = o.pool
    /\ heapUsed' = o.heap
    /\ lastCall' = [NoCall EXCEPT !.op = op, !.level = level, !.tag = tag,
                       !.passed = o.passed, !.admitted = o.admitted,
                       !.opened = o.opened, !.wrote = o.wrote,
                       !.notified = o.notified,
                       !.dropped = o.droppedLogs - droppedLogs,
                       !.counterBefore = logCounter]
    /\ UNCHANGED <<taskVars, hasMutex, poolMutex, mutexOwner, isLoggingEnabled, globalLogLevel,
                   tagLevels_, maxLogsPerSecond, backends, subscribers, now>>

Log(level, tag) ==
    /\ droppedLogs < MaxDropped
    /\ Apply("log", level, tag, LogOutcome(level, tag))

LogDirect(level, tag) ==
    Apply("logDirect", level, tag, LogDirectOutcome(level, tag))

\* A call of isLevelEnabledForTag or getTagLevel by the application.
QueryEnabled(level, tag) ==
    /\ lastCall' = [NoCall EXCEPT !.op = "isLevelEnabledForTag", !.level = level,
                       !.tag = tag, !.passed = IsLevelEnabledForTag(tag, level)]
    /\ UNCHANGED codeVars

QueryTagLevel(tag) ==
    /\ lastCall' = [NoCall EXCEPT !.op = "getTagLevel", !.tag = tag,
                       !.ret = GetTagLevel(tag)]
    /\ UNCHANGED codeVars

(***************************************************************************)
(* Configuration calls.                                                    *)
(***************************************************************************)
SetLogLevel(level) ==
    /\ globalLogLevel' = level
    /\ UNCHANGED <<taskVars, hasMutex, poolMutex, mutexOwner, isLoggingEnabled, tagLevels_,
                   maxLogsPerSecond, lastLogTime, logCounter, droppedLogs,
                   mutexTimeouts_, backends, subscribers, subscriberQueue, now,
                   pool, heapUsed>>

EnableLogging(enable) ==
    /\ isLoggingEnabled' = enable
    /\ UNCHANGED <<taskVars, hasMutex, poolMutex, mutexOwner, globalLogLevel, tagLevels_,
                   maxLogsPerSecond, lastLogTime, logCounter, droppedLogs,
                   mutexTimeouts_, backends, subscribers, subscriberQueue, now,
                   pool, heapUsed>>

SetMaxLogsPerSecond(maxLogs) ==
    /\ maxLogsPerSecond' = maxLogs
    /\ UNCHANGED <<taskVars, hasMutex, poolMutex, mutexOwner, isLoggingEnabled, globalLogLevel,
                   tagLevels_, lastLogTime, logCounter, droppedLogs,
                   mutexTimeouts_, backends, subscribers, subscriberQueue, now,
                   pool, heapUsed>>

SetTagLevel(tag, level) ==
    /\ IF tag = NullTag \/ Len(tag) = 0
       THEN UNCHANGED <<tagLevels_, mutexTimeouts_>>
       ELSE IF ~hasMutex \/ TakeOk("tagMutex")
       THEN /\ tagLevels_' = DoSetTagLevel(tagLevels_, tag, level)
            /\ UNCHANGED mutexTimeouts_
       ELSE /\ mutexTimeouts_' = mutexTimeouts_ + 1
            /\ UNCHANGED tagLevels_
    /\ UNCHANGED <<taskVars, hasMutex, poolMutex, mutexOwner, isLoggingEnabled, globalLogLevel,
                   maxLogsPerSecond, lastLogTime, logCounter, droppedLogs,
                   backends, subscribers, subscriberQueue, now, pool, heapUsed>>

\* addLogSubscriber without the scan for a duplicate.
AddLogSubscriber_NoDuplicateScan(callback) ==
    /\ IF (~hasMutex \/ TakeOk("subscriberMutex"))
          /\ Len(subscribers) < MAX_SUBSCRIBERS
       THEN subscribers' = Append(subscribers, callback)
       ELSE UNCHANGED subscribers
    /\ UNCHANGED <<taskVars, hasMutex, poolMutex, mutexOwner, isLoggingEnabled, globalLogLevel,
                   tagLevels_, maxLogsPerSecond, lastLogTime, logCounter, droppedLogs,
                   mutexTimeouts_, backends, subscriberQueue, now, pool, heapUsed>>

AddLogSubscriber(callback) ==
    /\ IF (~hasMutex \/ TakeOk("subscriberMutex"))
          /\ Len(subscribers) < MAX_SUBSCRIBERS
          /\ \A i \in 1..Len(subscribers) : subscribers[i] # callback
       THEN subscribers' = Append(subscribers, callback)
       ELSE UNCHANGED subscribers
    /\ UNCHANGED <<taskVars, hasMutex, poolMutex, mutexOwner, isLoggingEnabled, globalLogLevel,
                   tagLevels_, maxLogsPerSecond, lastLogTime, logCounter, droppedLogs,
                   mutexTimeouts_, backends, subscriberQueue, now, pool, heapUsed>>

\* The loop of removeLogSubscriber: the later callbacks shift down.
Without(seq, x) ==
    LET F[i \in 0..Len(seq)] ==
            IF i = 0 THEN << >>
            ELSE IF seq[i] = x THEN F[i - 1] ELSE Append(F[i - 1], seq[i])
    IN F[Len(seq)]

\* The last subscriber is moved into the place of the removed one.
RemoveLogSubscriber_SwapLast(callback) ==
    /\ IF ~hasMutex \/ TakeOk("subscriberMutex")
       THEN LET hits == {i \in 1..Len(subscribers) : subscribers[i] = callback}
                first == CHOOSE i \in hits : \A j \in hits : i <= j
            IN subscribers' =
                  IF hits = {} THEN subscribers
                  ELSE [i \in 1..(Len(subscribers) - 1) |->
                           IF i = first THEN subscribers[Len(subscribers)]
                           ELSE subscribers[i]]
       ELSE UNCHANGED subscribers
    /\ UNCHANGED <<taskVars, hasMutex, poolMutex, mutexOwner, isLoggingEnabled, globalLogLevel,
                   tagLevels_, maxLogsPerSecond, lastLogTime, logCounter, droppedLogs,
                   mutexTimeouts_, backends, subscriberQueue, now, pool, heapUsed>>

RemoveLogSubscriber(callback) ==
    /\ IF ~hasMutex \/ TakeOk("subscriberMutex")
       THEN subscribers' = Without(subscribers, callback)
       ELSE UNCHANGED subscribers
    /\ UNCHANGED <<taskVars, hasMutex, poolMutex, mutexOwner, isLoggingEnabled, globalLogLevel,
                   tagLevels_, maxLogsPerSecond, lastLogTime, logCounter, droppedLogs,
                   mutexTimeouts_, backends, subscriberQueue, now, pool, heapUsed>>

ResetDroppedLogs ==
    /\ droppedLogs' = 0
    /\ UNCHANGED <<taskVars, hasMutex, poolMutex, mutexOwner, isLoggingEnabled, globalLogLevel,
                   tagLevels_, maxLogsPerSecond, lastLogTime, logCounter,
                   mutexTimeouts_, backends, subscribers, subscriberQueue, now,
                   pool, heapUsed>>

\* millis() advances; it is a 32-bit counter and wraps.
Tick ==
    /\ now' = (now + 1) % TimerMod
    /\ UNCHANGED <<taskVars, hasMutex, poolMutex, mutexOwner, isLoggingEnabled, globalLogLevel,
                   tagLevels_, maxLogsPerSecond, lastLogTime, logCounter, droppedLogs,
                   mutexTimeouts_, backends, subscribers, subscriberQueue, pool,
                   heapUsed>>

(***************************************************************************)
(* The TagLevelTable of the specification, which the claims speak of: a    *)
(* map from tags to levels that holds at most CONFIG_LOG_MAX_TAGS tags,    *)
(* ignores the empty tag and a new tag once it is full.                    *)
(***************************************************************************)
AllTags == SetTags \cup LogTags
SpecSetLevel(ov, tag, level) ==
    IF tag = NullTag \/ tag = EmptyTag THEN ov
    ELSE IF ov[tag] # NoLevel
            \/ Cardinality({t \in AllTags : ov[t] # NoLevel}) < CONFIG_LOG_MAX_TAGS
         THEN [ov EXCEPT ![tag] = level]
         ELSE ov

\* effective_threshold(tag): the tag's override if set, else the global level.
EffectiveThreshold(tag) ==
    IF override[tag] # NoLevel THEN override[tag] ELSE globalLogLevel

(***************************************************************************)
(* The state after Logger::Logger() and BufferPool::BufferPool(), run with *)
(* the scheduler started, with one backend.                                *)
(***************************************************************************)
NoLocal == [buf |-> 0, i |-> 0, why |-> "none", calls |-> 0, written |-> 0,
            op |-> "none", format |-> "ok", formatBuffer |-> 0, fullMessage |-> 0]
NoWorker == [handle |-> FALSE, running |-> FALSE, pc |-> "none", tasks |-> 0]
NoStats == [droppedMessages |-> 0, droppedBytes |-> 0, partialWrites |-> 0]
NoTSStats == [droppedMessages_ |-> 0, droppedBytes_ |-> 0, mutexContention_ |-> 0,
              bufferFull_ |-> 0]

\* No task is inside a call; nothing was written yet.
InitCalls ==
    /\ pc = [t \in Tasks |-> "idle"]
    /\ local = [t \in Tasks |-> NoLocal]
    /\ serial = << >>
    /\ available = 0
    /\ nbStats = NoStats
    /\ tsStats = NoTSStats
    /\ invoked = << >>
    /\ worker = NoWorker

\* The backend in use was constructed: its shared mutex is installed.
InitTasks ==
    /\ InitCalls
    /\ mutexInitialized = TRUE
    /\ serialMutex = 1
    /\ semaphores = {1}

InitMembers ==
    /\ mutexOwner = [m \in Mutexes |-> NoTask]
    /\ isLoggingEnabled = TRUE
    /\ globalLogLevel = ESP_LOG_INFO
    /\ tagLevels_ = << >>
    /\ lastLogTime = 0
    /\ logCounter = 0
    /\ droppedLogs = 0
    /\ mutexTimeouts_ = 0
    /\ backends = <<"b1">>
    /\ subscribers = << >>
    /\ subscriberQueue = [exists |-> FALSE, items |-> << >>]
    /\ pool = [i \in Slots |-> FALSE]
    /\ heapUsed = 0

InitFields ==
    /\ InitTasks
    /\ InitMembers

InitLogger ==
    /\ hasMutex = TRUE
    /\ poolMutex = TRUE
    /\ InitFields

NoRecent == [at |-> [a \in 0..(RATE_LIMIT_WINDOW_MS - 1) |-> 0], win |-> 0]

NoBurst == [calls |-> 0, accepted |-> 0, dropped |-> 0, age |-> 0,
            fresh |-> FALSE, crossed |-> FALSE]

InitObs ==
    /\ lastCall = NoCall
    /\ prevCall = NoCall
    /\ override = [t \in AllTags |-> NoLevel]
    /\ burst = NoBurst
    /\ recent = NoRecent

(***************************************************************************)
(* Spec: level and tag filtering.  The logger was set to unlimited rate    *)
(* (setMaxLogsPerSecond(0)); the application sets levels and tag levels,   *)
(* enables and disables logging, logs and queries.  lastCall holds the     *)
(* result of a logging or query call until the caller has looked at it     *)
(* (Returned); the caller makes its next call after that.                  *)
(***************************************************************************)
Init ==
    /\ InitLogger
    /\ InitObs
    /\ maxLogsPerSecond = 0
    /\ now = 0

Idle == lastCall = NoCall

CallSetLogLevel ==
    /\ Idle
    /\ \E level \in Levels : SetLogLevel(level)
    /\ UNCHANGED obsVars

CallEnableLogging ==
    /\ Idle
    /\ \E enable \in BOOLEAN : EnableLogging(enable)
    /\ UNCHANGED obsVars

CallSetTagLevel ==
    /\ Idle
    /\ \E tag \in SetTags \cup {NullTag}, level \in SetTagLevels :
          /\ SetTagLevel(tag, level)
          /\ override' = SpecSetLevel(override, tag, level)
    /\ UNCHANGED <<lastCall, prevCall, burst, recent>>

CallLog ==
    /\ Idle
    /\ \E level \in Levels, tag \in LogTags : Log(level, tag)
    /\ UNCHANGED <<prevCall, override, burst, recent>>

CallQueryEnabled ==
    /\ Idle
    /\ \E level \in Levels, tag \in LogTags : QueryEnabled(level, tag)
    /\ UNCHANGED <<prevCall, override, burst, recent>>

CallQueryTagLevel ==
    /\ Idle
    /\ \E tag \in LogTags : QueryTagLevel(tag)
    /\ UNCHANGED <<prevCall, override, burst, recent>>

Returned ==
    /\ ~Idle
    /\ lastCall' = NoCall
    /\ UNCHANGED <<codeVars, prevCall, override, burst, recent>>

Next ==
    \/ CallSetLogLevel
    \/ CallEnableLogging
    \/ CallSetTagLevel
    \/ CallLog
    \/ CallQueryEnabled
    \/ CallQueryTagLevel
    \/ Returned

Spec == Init /\ [][Next]_vars

TypeOK ==
    /\ isLoggingEnabled \in BOOLEAN
    /\ globalLogLevel \in Levels
    /\ Len(tagLevels_) <= CONFIG_LOG_MAX_TAGS
    /\ \A i \in Slots : pool[i] = FALSE
    /\ heapUsed = 0

\* The filter of the claims: enabled, not NONE, within the effective threshold.
ShouldPass(level, tag) ==
    /\ isLoggingEnabled
    /\ level # ESP_LOG_NONE
    /\ level <= EffectiveThreshold(tag)

(***************************************************************************)
(* C1: with unlimited rate and one backend, log(level, tag, ...) is        *)
(* written to the backend if and only if logging is enabled, the level is  *)
(* not NONE and level <= effective_threshold(tag), the level last set for  *)
(* the tag by setTagLevel if there is one, else the global level.          *)
(***************************************************************************)
C1_LogWrittenIffWithinThreshold ==
    (lastCall.op = "log" /\ maxLogsPerSecond = 0 /\ Len(backends) = 1)
        => ((lastCall.wrote = backends) <=> ShouldPass(lastCall.level, lastCall.tag))

\* The same for the calls made while no tag of CONFIG_LOG_SUBSCRIBER_TAG_SIZE
\* characters or more has been given to setTagLevel.
C1_HoldsWithoutLongTags ==
    (lastCall.op = "log" /\ maxLogsPerSecond = 0 /\ Len(backends) = 1
        /\ override[LongTag] = NoLevel)
        => ((lastCall.wrote = backends) <=> ShouldPass(lastCall.level, lastCall.tag))

(***************************************************************************)
(* C2: after any setLogLevel and setTagLevel calls, getTagLevel(X) returns *)
(* and isLevelEnabledForTag(X, L) uses the level last set for X by         *)
(* setTagLevel, whatever the global level, and the global level for a tag  *)
(* never set; after setTagLevel(X, ERROR), (X, WARN) is disabled and       *)
(* (X, ERROR) enabled.                                                     *)
(***************************************************************************)
C2_QueriesUseLastSetLevel ==
    /\ lastCall.op = "getTagLevel"
            => lastCall.ret = EffectiveThreshold(lastCall.tag)
    /\ (lastCall.op = "isLevelEnabledForTag" /\ isLoggingEnabled)
            => (lastCall.passed <=> ShouldPass(lastCall.level, lastCall.tag))
    /\ (lastCall.op = "isLevelEnabledForTag" /\ isLoggingEnabled
            /\ override[lastCall.tag] = ESP_LOG_ERROR)
            => /\ lastCall.level = ESP_LOG_WARN => ~lastCall.passed
               /\ lastCall.level = ESP_LOG_ERROR => lastCall.passed

C2_HoldsWithoutLongTags ==
    override[LongTag] = NoLevel => C2_QueriesUseLastSetLevel

(***************************************************************************)
(* SpecRate: the rate limiter seen through pairs of consecutive calls.     *)
(* The logger is constructed at any time of the millisecond timer (the     *)
(* default rate is MAX_LOGS_PER_SECOND, here MaxRate); the global level    *)
(* stays INFO, so INFO is an enabled level and DEBUG is not.  prevCall is  *)
(* the call made before lastCall, with nothing but time passing between.   *)
(***************************************************************************)
InitRate ==
    /\ InitLogger
    /\ InitObs
    /\ maxLogsPerSecond = MaxRate
    /\ now \in 0..(TimerMod - 1)

RateLevels == {ESP_LOG_INFO, ESP_LOG_DEBUG}

RateSetMax ==
    /\ Idle
    /\ \E maxLogs \in 0..MaxRate : SetMaxLogsPerSecond(maxLogs)
    /\ prevCall' = NoCall
    /\ UNCHANGED <<lastCall, override, burst, recent>>

RateResetDropped ==
    /\ Idle
    /\ droppedLogs # 0
    /\ ResetDroppedLogs
    /\ UNCHANGED obsVars

RateLog ==
    /\ Idle
    /\ \E level \in RateLevels : Log(level, TagB)
    /\ UNCHANGED <<prevCall, override, burst, recent>>

RateLogDirect ==
    /\ Idle
    /\ \E level \in RateLevels : LogDirect(level, TagB)
    /\ UNCHANGED <<prevCall, override, burst, recent>>

RateTick ==
    /\ Idle
    /\ Tick
    /\ UNCHANGED obsVars

RateReturned ==
    /\ ~Idle
    /\ prevCall' = lastCall
    /\ lastCall' = NoCall
    /\ UNCHANGED <<codeVars, override, burst, recent>>

NextRate ==
    \/ RateSetMax
    \/ RateResetDropped
    \/ RateLog
    \/ RateLogDirect
    \/ RateTick
    \/ RateReturned

SpecRate == InitRate /\ [][NextRate]_vars

\* Two consecutive log calls at an enabled level, the second in the window
\* of the first (it did not open a new one).
LogPairInOneWindow ==
    /\ prevCall.op = "log" /\ prevCall.passed
    /\ lastCall.op = "log" /\ lastCall.passed
    /\ ~lastCall.opened

Writes(call) == Len(call.wrote)

(***************************************************************************)
(* C5 as claimed: with maxLogsPerSecond = 1, a logDirect call at an        *)
(* enabled level is written and leaves the dropped-log count unchanged in  *)
(* every limiter state, and two consecutive log calls within the same      *)
(* window produce exactly one backend write.                               *)
(***************************************************************************)
C5_Claimed ==
    maxLogsPerSecond = 1 =>
        /\ (lastCall.op = "logDirect" /\ lastCall.passed)
                => (lastCall.wrote = backends /\ lastCall.dropped = 0)
        /\ LogPairInOneWindow => Writes(prevCall) + Writes(lastCall) = 1

(***************************************************************************)
(* C5 amended: with maxLogsPerSecond = 1, a logDirect call at an enabled   *)
(* level is written and leaves the dropped-log count unchanged in every    *)
(* limiter state; of two consecutive log calls within the same window the  *)
(* second is dropped and counted, and the first is written exactly when no *)
(* call was admitted in that window before it: at most one backend write.  *)
(***************************************************************************)
C5_DirectBypassesLimiter ==
    maxLogsPerSecond = 1 =>
        /\ (lastCall.op = "logDirect" /\ lastCall.passed)
                => (lastCall.wrote = backends /\ lastCall.dropped = 0)
        /\ LogPairInOneWindow =>
                /\ lastCall.wrote = << >> /\ lastCall.dropped = 1
                /\ (prevCall.wrote = backends)
                        <=> (prevCall.opened \/ prevCall.counterBefore = 0)
                /\ Writes(prevCall) + Writes(lastCall) <= 1

\* Two logDirect calls in a row, both written, after the limiter has begun
\* to drop log calls.
C5_Witness ==
    /\ maxLogsPerSecond = 1
    /\ droppedLogs > 0
    /\ prevCall.op = "logDirect" /\ prevCall.wrote = backends
    /\ lastCall.op = "logDirect" /\ lastCall.wrote = backends

(***************************************************************************)
(* SpecBurst: bursts of log calls at an enabled level.  burst observes the *)
(* calls made since an arbitrary call (BurstRestart picks where a burst    *)
(* begins): how many, how many were accepted and dropped, the time since   *)
(* the first of them, whether an earlier call had been admitted in the     *)
(* window in which the first call fell (fresh = none had), and whether a   *)
(* later call of the burst opened a new window (crossed).  A burst lasts   *)
(* at most BurstSpan ticks, less than the window.                          *)
(***************************************************************************)
InitBurst ==
    /\ InitLogger
    /\ InitObs
    /\ maxLogsPerSecond = MaxRate
    /\ now = 0

Counted(b, call) ==
    [calls    |-> b.calls + 1,
     accepted |-> b.accepted + (IF call.admitted THEN 1 ELSE 0),
     dropped  |-> b.dropped + call.dropped,
     age      |-> b.age,
     fresh    |-> IF b.calls = 0 THEN call.opened \/ call.counterBefore = 0
                  ELSE b.fresh,
     crossed  |-> IF b.calls = 0 THEN FALSE ELSE b.crossed \/ call.opened]

BurstLog ==
    /\ burst.calls < MaxBurst
    /\ Log(ESP_LOG_INFO, TagB)
    /\ burst' = Counted(burst, lastCall')
    /\ UNCHANGED <<prevCall, override, recent>>

BurstTick ==
    /\ Tick
    /\ burst' = IF burst.calls = 0 THEN burst
                ELSE IF burst.age < BurstSpan
                     THEN [burst EXCEPT !.age = burst.age + 1]
                     ELSE NoBurst
    /\ UNCHANGED <<lastCall, prevCall, override, recent>>

BurstRestart ==
    /\ burst.calls > 0
    /\ burst' = NoBurst
    /\ UNCHANGED <<codeVars, lastCall, prevCall, override, recent>>

BurstSetMax ==
    /\ \E maxLogs \in 0..MaxRate : SetMaxLogsPerSecond(maxLogs)
    /\ burst' = NoBurst
    /\ UNCHANGED <<lastCall, prevCall, override, recent>>

BurstResetDropped ==
    /\ droppedLogs # 0
    /\ ResetDroppedLogs
    /\ UNCHANGED obsVars

NextBurst ==
    \/ BurstLog
    \/ BurstTick
    \/ BurstRestart
    \/ BurstSetMax
    \/ BurstResetDropped

SpecBurst == InitBurst /\ [][NextBurst]_vars

(***************************************************************************)
(* C3 as claimed: with maxLogsPerSecond = N > 0, M > N log calls issued    *)
(* within the burst span at an enabled level yield exactly N accepted      *)
(* calls and M - N added to the dropped-log count.                         *)
(***************************************************************************)
C3_Claimed ==
    (maxLogsPerSecond > 0 /\ burst.calls > maxLogsPerSecond)
        => /\ burst.accepted = maxLogsPerSecond
           /\ burst.dropped = burst.calls - maxLogsPerSecond

(***************************************************************************)
(* C3 amended: with maxLogsPerSecond = N > 0, M log calls issued within    *)
(* the burst span at an enabled level, the first of which finds no call    *)
(* admitted in its window (it opens a window because the previous one has  *)
(* elapsed, or nothing was admitted since construction) and none of which  *)
(* opens a later window, yield Min(M, N) accepted calls and the rest added *)
(* to the dropped-log count: exactly N and M - N when M > N, and again N   *)
(* once the window has elapsed.                                            *)
(***************************************************************************)
C3_BurstInOneWindow ==
    (maxLogsPerSecond > 0 /\ burst.calls > 0 /\ burst.fresh /\ ~burst.crossed)
        => /\ burst.accepted = Min(burst.calls, maxLogsPerSecond)
           /\ burst.dropped = burst.calls - burst.accepted

\* A burst of more than N calls whose first call opened a new window after
\* an earlier window had been used up.
C3_Witness ==
    /\ maxLogsPerSecond > 0
    /\ burst.calls > maxLogsPerSecond
    /\ burst.fresh /\ ~burst.crossed
    /\ lastLogTime # 0
    /\ burst.accepted = maxLogsPerSecond
    /\ burst.dropped > 0

(***************************************************************************)
(* SpecRolling: the limiter under a constant maxLogsPerSecond, set right   *)
(* after construction.  recent.at[a] is the number of calls admitted a     *)
(* ticks ago, for the last RATE_LIMIT_WINDOW_MS ticks: their sum is the    *)
(* number admitted in the interval of window length that ends now.         *)
(* recent.win is the number admitted since the last call that opened a     *)
(* window of the limiter.                                                  *)
(***************************************************************************)
InitRolling ==
    /\ InitLogger
    /\ InitObs
    /\ maxLogsPerSecond \in 1..MaxRate
    /\ now = 0

RollingLog ==
    /\ Log(ESP_LOG_INFO, TagB)
    /\ recent' = IF ~lastCall'.admitted THEN recent
                 ELSE [at  |-> [recent.at EXCEPT ![0] = @ + 1],
                       win |-> IF lastCall'.opened THEN 1 ELSE recent.win + 1]
    /\ UNCHANGED <<prevCall, override, burst>>

RollingTick ==
    /\ Tick
    /\ recent' = [recent EXCEPT !.at = [a \in 0..(RATE_LIMIT_WINDOW_MS - 1) |->
                                           IF a = 0 THEN 0 ELSE recent.at[a - 1]]]
    /\ UNCHANGED <<lastCall, prevCall, override, burst>>

RollingResetDropped ==
    /\ droppedLogs # 0
    /\ ResetDroppedLogs
    /\ UNCHANGED obsVars

NextRolling ==
    \/ RollingLog
    \/ RollingTick
    \/ RollingResetDropped

SpecRolling == InitRolling /\ [][NextRolling]_vars

RECURSIVE SumTo(_, _)
SumTo(f, n) == IF n < 0 THEN 0 ELSE f[n] + SumTo(f, n - 1)

AdmittedInInterval == SumTo(recent.at, RATE_LIMIT_WINDOW_MS - 1)

(***************************************************************************)
(* C4 as claimed: with maxLogsPerSecond = N > 0 held constant, in any time *)
(* interval of window length, wherever it starts, the number of calls      *)
(* admitted by checkRateLimit never exceeds N.                             *)
(***************************************************************************)
C4_Claimed == AdmittedInInterval <= maxLogsPerSecond

(***************************************************************************)
(* C4 amended: with maxLogsPerSecond = N > 0 held constant, the limiter    *)
(* admits at most N calls per fixed window, the time from one call that    *)
(* opens a window to the next one that does; an interval of window length  *)
(* that starts elsewhere overlaps two such windows and holds at most 2N    *)
(* admitted calls.                                                         *)
(***************************************************************************)
C4_AtMostNPerFixedWindow ==
    /\ recent.win <= maxLogsPerSecond
    /\ recent.win = logCounter
    /\ AdmittedInInterval <= 2 * maxLogsPerSecond

\* An interval of window length in which two windows of the limiter were
\* both used up.
C4_Witness ==
    /\ AdmittedInInterval = 2 * maxLogsPerSecond
    /\ recent.win = maxLogsPerSecond
    /\ lastCall.op = "log" /\ lastCall.admitted

(***************************************************************************)
(* SpecDirect: logDirect against the filter, the subscribers and the rate  *)
(* limiter.  No subscriber task was started, so notifications are made on  *)
(* the caller's thread.  The application sets levels, overrides two tags   *)
(* (one of them too long for an entry), registers and removes callbacks,   *)
(* sets a rate of 0 or 1 and uses it up with log calls.                    *)
(***************************************************************************)
DirectTags == {TagA, TagB, LongTag}
DirectLevels == {ESP_LOG_NONE, ESP_LOG_ERROR, ESP_LOG_INFO}

InitDirect ==
    /\ InitLogger
    /\ InitObs
    /\ maxLogsPerSecond = 1
    /\ now = 0

DirectSetLogLevel ==
    /\ Idle
    /\ \E level \in {ESP_LOG_WARN, ESP_LOG_INFO} : SetLogLevel(level)
    /\ UNCHANGED obsVars

DirectEnableLogging ==
    /\ Idle
    /\ \E enable \in BOOLEAN : EnableLogging(enable)
    /\ UNCHANGED obsVars

DirectSetTagLevel ==
    /\ Idle
    /\ \E tag \in {TagA, LongTag} :
          /\ SetTagLevel(tag, ESP_LOG_ERROR)
          /\ override' = SpecSetLevel(override, tag, ESP_LOG_ERROR)
    /\ UNCHANGED <<lastCall, prevCall, burst, recent>>

DirectSetMax ==
    /\ Idle
    /\ \E maxLogs \in {0, 1} : SetMaxLogsPerSecond(maxLogs)
    /\ UNCHANGED obsVars

DirectAddSubscriber ==
    /\ Idle
    /\ \E callback \in Callbacks : AddLogSubscriber(callback)
    /\ UNCHANGED obsVars

DirectRemoveSubscriber ==
    /\ Idle
    /\ \E callback \in Callbacks : RemoveLogSubscriber(callback)
    /\ UNCHANGED obsVars

DirectLog ==
    /\ Idle
    /\ Log(ESP_LOG_ERROR, TagB)
    /\ UNCHANGED <<prevCall, override, burst, recent>>

DirectLogDirect ==
    /\ Idle
    /\ \E level \in DirectLevels, tag \in DirectTags : LogDirect(level, tag)
    /\ UNCHANGED <<prevCall, override, burst, recent>>

NextDirect ==
    \/ DirectSetLogLevel
    \/ DirectEnableLogging
    \/ DirectSetTagLevel
    \/ DirectSetMax
    \/ DirectAddSubscriber
    \/ DirectRemoveSubscriber
    \/ DirectLog
    \/ DirectLogDirect
    \/ Returned

SpecDirect == InitDirect /\ [][NextDirect]_vars

(***************************************************************************)
(* C6: a logDirect call whose level is above the effective threshold of    *)
(* its tag, or made while logging is disabled, produces no backend write   *)
(* and no subscriber notification; a logDirect call that passes the filter *)
(* notifies the registered subscribers (and is written) whatever the state *)
(* of the rate limiter, which it leaves as it was.                         *)
(***************************************************************************)
C6_DirectFiltersAndNotifies ==
    lastCall.op = "logDirect" =>
        /\ ~ShouldPass(lastCall.level, lastCall.tag)
                => (lastCall.wrote = << >> /\ lastCall.notified = << >>)
        /\ ShouldPass(lastCall.level, lastCall.tag)
                => (lastCall.notified = subscribers /\ lastCall.wrote = backends)
        /\ lastCall.dropped = 0 /\ ~lastCall.opened
        /\ logCounter = lastCall.counterBefore

\* C6 for the tags that fit a table entry.
C6_HoldsWithoutLongTags ==
    override[LongTag] = NoLevel => C6_DirectFiltersAndNotifies

\* A logDirect call that reached two subscribers while the limiter was
\* dropping log calls.
C6_ExhaustedLimiterReached ==
    /\ lastCall.op = "logDirect"
    /\ Len(lastCall.notified) = 2
    /\ maxLogsPerSecond = 1 /\ logCounter = 1 /\ droppedLogs > 0

(***************************************************************************)
(* SpecPool: BufferPool::acquire and BufferPool::release step by step,     *)
(* called by concurrent tasks; each task releases the buffer it acquired.  *)
(* The pool was constructed with or without its mutex.  A wait for the     *)
(* mutex can time out while another task holds it; malloc returns an       *)
(* address not in use, or null.  local[t].why tells how the call ended:    *)
(* "slot", "nomutex", "timeout" (lock wait) or "full" (no free slot).      *)
(***************************************************************************)
HeapAddrs == {NullBuf + a : a \in 1..HeapCap}
LiveHeap == {local[t].buf : t \in Tasks} \cap HeapAddrs

InitPool ==
    /\ hasMutex = TRUE
    /\ poolMutex \in BOOLEAN
    /\ InitFields
    /\ InitObs
    /\ maxLogsPerSecond = 0
    /\ now = 0

poolFrame == <<hasMutex, poolMutex, isLoggingEnabled, globalLogLevel, tagLevels_,
               maxLogsPerSecond, lastLogTime, logCounter, droppedLogs, mutexTimeouts_,
               backends, subscribers, subscriberQueue, now, serial, available,
               nbStats, mutexInitialized, worker, tsStats, serialMutex, semaphores,
               invoked, obsVars>>

AcquireBegin(t) ==
    /\ pc[t] = "idle"
    /\ IF ~poolMutex
       THEN /\ pc' = [pc EXCEPT ![t] = "malloc"]
            /\ local' = [local EXCEPT ![t] = [NoLocal EXCEPT !.why = "nomutex"]]
       ELSE /\ pc' = [pc EXCEPT ![t] = "take"]
            /\ local' = [local EXCEPT ![t] = NoLocal]
    /\ UNCHANGED <<mutexOwner, pool, heapUsed, poolFrame>>

AcquireTake(t) ==
    /\ pc[t] = "take"
    /\ mutexOwner["poolMutex"] = NoTask
    /\ mutexOwner' = [mutexOwner EXCEPT !["poolMutex"] = t]
    /\ pc' = [pc EXCEPT ![t] = "scan"]
    /\ local' = [local EXCEPT ![t].i = 1]
    /\ UNCHANGED <<pool, heapUsed, poolFrame>>

AcquireTimeout(t) ==
    /\ pc[t] = "take"
    /\ mutexOwner["poolMutex"] # NoTask
    /\ pc' = [pc EXCEPT ![t] = "malloc"]
    /\ local' = [local EXCEPT ![t].why = "timeout"]
    /\ UNCHANGED <<mutexOwner, pool, heapUsed, poolFrame>>

\* compare_exchange_strong on slot i, and what the loop does with its result.
AcquireCas_TestOnly(t) ==
    /\ pc[t] = "scan"
    /\ LET i == local[t].i
       IN IF ~pool[i]
          THEN /\ pool' = pool
               /\ mutexOwner' = [mutexOwner EXCEPT !["poolMutex"] = NoTask]
               /\ pc' = [pc EXCEPT ![t] = "holding"]
               /\ local' = [local EXCEPT ![t].buf = i, ![t].why = "slot"]
          ELSE IF i < CONFIG_LOG_BUFFER_POOL_SIZE
          THEN /\ local' = [local EXCEPT ![t].i = i + 1]
               /\ UNCHANGED <<pool, mutexOwner, pc>>
          ELSE /\ mutexOwner' = [mutexOwner EXCEPT !["poolMutex"] = NoTask]
               /\ pc' = [pc EXCEPT ![t] = "malloc"]
               /\ local' = [local EXCEPT ![t].why = "full"]
               /\ pool' = pool
    /\ UNCHANGED <<heapUsed, poolFrame>>

AcquireCas(t) ==
    /\ pc[t] = "scan"
    /\ LET i == local[t].i
       IN IF ~pool[i]
          THEN /\ pool' = [pool EXCEPT ![i] = TRUE]
               /\ mutexOwner' = [mutexOwner EXCEPT !["poolMutex"] = NoTask]
               /\ pc' = [pc EXCEPT ![t] = "holding"]
               /\ local' = [local EXCEPT ![t].buf = i, ![t].why = "slot"]
          ELSE IF i < CONFIG_LOG_BUFFER_POOL_SIZE
          THEN /\ local' = [local EXCEPT ![t].i = i + 1]
               /\ UNCHANGED <<pool, mutexOwner, pc>>
          ELSE /\ mutexOwner' = [mutexOwner EXCEPT !["poolMutex"] = NoTask]
               /\ pc' = [pc EXCEPT ![t] = "malloc"]
               /\ local' = [local EXCEPT ![t].why = "full"]
               /\ pool' = pool
    /\ UNCHANGED <<heapUsed, poolFrame>>

AcquireMalloc(t) ==
    /\ pc[t] = "malloc"
    /\ \E a \in (HeapAddrs \ LiveHeap) \cup {NullBuf} :
          /\ local' = [local EXCEPT ![t].buf = a]
          /\ heapUsed' = IF a = NullBuf THEN heapUsed ELSE heapUsed + 1
    /\ pc' = [pc EXCEPT ![t] = "holding"]
    /\ UNCHANGED <<mutexOwner, pool, poolFrame>>

ReleaseBuffer(t) ==
    /\ pc[t] = "holding"
    /\ LET r == Release(pool, heapUsed, local[t].buf)
       IN pool' = r.pool /\ heapUsed' = r.heap
    /\ pc' = [pc EXCEPT ![t] = "idle"]
    /\ local' = [local EXCEPT ![t] = NoLocal]
    /\ UNCHANGED <<mutexOwner, poolFrame>>

NextPool ==
    \E t \in Tasks :
        \/ AcquireBegin(t)
        \/ AcquireTake(t)
        \/ AcquireTimeout(t)
        \/ AcquireCas(t)
        \/ AcquireMalloc(t)
        \/ ReleaseBuffer(t)

SpecPool == InitPool /\ [][NextPool]_vars

Holders == {t \in Tasks : pc[t] = "holding"}

InitSync ==
    /\ InitLogger
    /\ InitObs
    /\ maxLogsPerSecond = 0
    /\ now = 0

syncFrame == <<hasMutex, poolMutex, isLoggingEnabled, globalLogLevel, tagLevels_,
               maxLogsPerSecond, lastLogTime, logCounter, droppedLogs, mutexTimeouts_,
               backends, subscribers, subscriberQueue, now, pool, heapUsed,
               available, nbStats, mutexInitialized, worker, tsStats, serialMutex,
               semaphores, invoked, obsVars>>

InSection(t) == pc[t] \in {"write", "flush", "flushOnly"}

\* write: the checks before the take (a null message returns at once).
SyncWriteBegin(t) ==
    /\ pc[t] = "idle"
    /\ local[t].calls < MaxWrites
    /\ mutexInitialized
    /\ pc' = [pc EXCEPT ![t] = "take"]
    /\ local' = [local EXCEPT ![t].i = 0, ![t].calls = @ + 1]
    /\ UNCHANGED <<mutexOwner, serial, syncFrame>>

SyncTake(t) ==
    /\ pc[t] = "take"
    /\ mutexOwner["serialMutex"] = NoTask
    /\ mutexOwner' = [mutexOwner EXCEPT !["serialMutex"] = t]
    /\ pc' = [pc EXCEPT ![t] = "write"]
    /\ UNCHANGED <<local, serial, syncFrame>>

\* xSemaphoreTake returns pdFALSE after the standard timeout: the message is skipped.
SyncTimeout_WritesAnyway(t) ==
    /\ pc[t] = "take"
    /\ mutexOwner["serialMutex"] # NoTask
    /\ pc' = [pc EXCEPT ![t] = "write"]
    /\ local' = [local EXCEPT ![t].why = "timeout"]
    /\ UNCHANGED <<mutexOwner, serial, syncFrame>>

SyncTimeout(t) ==
    /\ pc[t] = "take"
    /\ mutexOwner["serialMutex"] # NoTask
    /\ pc' = [pc EXCEPT ![t] = "idle"]
    /\ local' = [local EXCEPT ![t].why = "timeout"]
    /\ UNCHANGED <<mutexOwner, serial, syncFrame>>

\* Serial.write(logMessage, length), one byte at a time.
SyncSerialWrite(t) ==
    /\ pc[t] = "write"
    /\ serial' = Append(serial, [task |-> t, k |-> local[t].i + 1])
    /\ local' = [local EXCEPT ![t].i = @ + 1]
    /\ pc' = [pc EXCEPT ![t] = IF local[t].i + 1 = MsgLen THEN "flush" ELSE "write"]
    /\ UNCHANGED <<mutexOwner, syncFrame>>

\* Serial.flush() and xSemaphoreGive(mutex).
SyncFlushGive(t) ==
    /\ pc[t] = "flush"
    /\ mutexOwner' = [mutexOwner EXCEPT !["serialMutex"] =
                          IF @ = t THEN NoTask ELSE @]
    /\ pc' = [pc EXCEPT ![t] = "idle"]
    /\ local' = [local EXCEPT ![t].written = @ + 1, ![t].why = "written"]
    /\ UNCHANGED <<serial, syncFrame>>

\* flush(): takes the mutex with half the short timeout, or gives up.
SyncFlushTake(t) ==
    /\ pc[t] = "idle"
    /\ mutexInitialized
    /\ mutexOwner["serialMutex"] = NoTask
    /\ mutexOwner' = [mutexOwner EXCEPT !["serialMutex"] = t]
    /\ pc' = [pc EXCEPT ![t] = "flushOnly"]
    /\ UNCHANGED <<local, serial, syncFrame>>

SyncFlushDone(t) ==
    /\ pc[t] = "flushOnly"
    /\ mutexOwner' = [mutexOwner EXCEPT !["serialMutex"] = NoTask]
    /\ pc' = [pc EXCEPT ![t] = "idle"]
    /\ UNCHANGED <<local, serial, syncFrame>>

NextSync ==
    \E t \in Tasks :
        \/ SyncWriteBegin(t)
        \/ SyncTake(t)
        \/ SyncTimeout(t)
        \/ SyncSerialWrite(t)
        \/ SyncFlushGive(t)
        \/ SyncFlushTake(t)
        \/ SyncFlushDone(t)

SpecSync == InitSync /\ [][NextSync]_vars

\* The positions of serial that hold bytes of task t.
BytesOf(t) == {n \in 1..Len(serial) : serial[n].task = t}

(***************************************************************************)
(* C9: under the synchronized writer at most one task at a time is inside  *)
(* the write-and-flush section, and the bytes of a message are never       *)
(* interleaved with those of another: the bytes a task has written stand   *)
(* next to each other on the transport, in order, and a message whose      *)
(* write has returned is there whole.                                      *)
(***************************************************************************)
C9_OneWriterContiguousBytes ==
    /\ Cardinality({t \in Tasks : InSection(t)}) <= 1
    /\ \A t \in Tasks : InSection(t) => mutexOwner["serialMutex"] = t
    /\ \A t \in Tasks :
          /\ \A n \in BytesOf(t) :
                serial[n].k = 1 \/ (n > 1 /\ serial[n - 1] = [task |-> t, k |-> serial[n].k - 1])
          /\ ~InSection(t) => Cardinality(BytesOf(t)) = MsgLen * local[t].written
          /\ (pc[t] = "write" /\ local[t].i > 0)
                => serial[Len(serial)] = [task |-> t, k |-> local[t].i]

\* Two tasks have each put a whole message on the transport while a third
\* gave up waiting for the mutex.
C9_Witness ==
    \E t1, t2, t3 \in Tasks :
        /\ t1 # t2
        /\ local[t1].written > 0 /\ local[t2].written > 0
        /\ local[t3].why = "timeout" /\ pc[t3] = "idle" /\ local[t3].written = 0
        /\ Len(serial) >= 2 * MsgLen

(***************************************************************************)
(* SpecNB: NonBlockingConsoleBackend::write, called by one task with       *)
(* messages of several lengths while the transport's free space changes    *)
(* (the hardware drains its buffer, other code fills it).  Serial.write    *)
(* puts the bytes it is given on the transport; serial holds the bytes of  *)
(* the last call, message bytes by their index and the bytes of the        *)
(* truncation marker as 0.  lastCall records the call: its length, the     *)
(* free space it found, the counters before it and the number of calls of  *)
(* Serial.write it made (the only operations of write that can wait).      *)
(***************************************************************************)
NBLengths == {0, 1, 2, MIN_BUFFER_SPACE - 1, MIN_BUFFER_SPACE, MIN_BUFFER_SPACE + 1,
              MaxLength}

InitNB ==
    /\ InitLogger
    /\ InitObs
    /\ maxLogsPerSecond = 0
    /\ now = 0

nbFrame == <<pc, local, mutexInitialized, worker, tsStats, serialMutex, semaphores,
             invoked, hasMutex, poolMutex, mutexOwner,
             isLoggingEnabled, globalLogLevel, tagLevels_, maxLogsPerSecond,
             lastLogTime, logCounter, droppedLogs, mutexTimeouts_, backends,
             subscribers, subscriberQueue, now, pool, heapUsed,
             prevCall, override, burst, recent>>

Bytes(n) == [k \in 1..n |-> k]
Marker == [k \in 1..TRUNCATION_MARKER_LEN |-> 0]

\* write(logMessage, length) with a non-null logMessage: the bytes put on the
\* transport, the calls of Serial.write and the counters afterwards.
NBWriteOutcome_Uncounted(length) ==
    IF length = 0
    THEN [out |-> << >>, calls |-> 0, stats |-> nbStats]
    ELSE IF available < MIN_BUFFER_SPACE
    THEN [out |-> << >>, calls |-> 0,
          stats |-> [nbStats EXCEPT !.droppedMessages = @ + 1]]
    ELSE IF available >= length
    THEN [out |-> Bytes(length), calls |-> 1, stats |-> nbStats]
    ELSE LET toWrite == available - TRUNCATION_MARKER_LEN
         IN IF toWrite > 0
            THEN [out |-> Bytes(toWrite) \o Marker, calls |-> 2,
                  stats |-> [nbStats EXCEPT !.partialWrites = @ + 1,
                                            !.droppedBytes = @ + (length - toWrite)]]
            ELSE [out |-> << >>, calls |-> 0,
                  stats |-> [nbStats EXCEPT !.droppedMessages = @ + 1,
                                            !.droppedBytes = @ + length]]

\* write with the prefix taking all the free space, none left for the marker.
NBWriteOutcome_NoMarkerRoom(length) ==
    IF length = 0
    THEN [out |-> << >>, calls |-> 0, stats |-> nbStats]
    ELSE IF available < MIN_BUFFER_SPACE
    THEN [out |-> << >>, calls |-> 0,
          stats |-> [nbStats EXCEPT !.droppedMessages = @ + 1,
                                    !.droppedBytes = @ + length]]
    ELSE IF available >= length
    THEN [out |-> Bytes(length), calls |-> 1, stats |-> nbStats]
    ELSE [out |-> Bytes(available) \o Marker, calls |-> 2,
          stats |-> [nbStats EXCEPT !.partialWrites = @ + 1,
                                    !.droppedBytes = @ + (length - available)]]

NBWriteOutcome(length) ==
    IF length = 0
    THEN [out |-> << >>, calls |-> 0, stats |-> nbStats]
    ELSE IF available < MIN_BUFFER_SPACE
    THEN [out |-> << >>, calls |-> 0,
          stats |-> [nbStats EXCEPT !.droppedMessages = @ + 1,
                                    !.droppedBytes = @ + length]]
    ELSE IF available >= length
    THEN [out |-> Bytes(length), calls |-> 1, stats |-> nbStats]
    ELSE LET toWrite == available - TRUNCATION_MARKER_LEN
         IN IF toWrite > 0
            THEN [out |-> Bytes(toWrite) \o Marker, calls |-> 2,
                  stats |-> [nbStats EXCEPT !.partialWrites = @ + 1,
                                            !.droppedBytes = @ + (length - toWrite)]]
            ELSE [out |-> << >>, calls |-> 0,
                  stats |-> [nbStats EXCEPT !.droppedMessages = @ + 1,
                                            !.droppedBytes = @ + length]]

NBWrite ==
    /\ Idle
    /\ nbStats.droppedBytes <= MaxDroppedBytes
    /\ nbStats.droppedMessages < MaxDropped
    /\ nbStats.partialWrites < MaxDropped
    /\ \E length \in NBLengths :
          LET o == NBWriteOutcome(length)
          IN /\ serial' = o.out
             /\ nbStats' = o.stats
             /\ available' = available - Len(o.out)
             /\ lastCall' = [op |-> "write", length |-> length,
                             available |-> available, before |-> nbStats,
                             calls |-> o.calls]
    /\ UNCHANGED nbFrame

NBResetStats ==
    /\ Idle
    /\ nbStats # NoStats
    /\ nbStats' = NoStats
    /\ UNCHANGED <<serial, available, lastCall, nbFrame>>

\* The transport's free space changes between two calls.
NBSetAvailable ==
    /\ Idle
    /\ \E a \in 0..MaxAvail : a # available /\ available' = a
    /\ UNCHANGED <<serial, nbStats, lastCall, nbFrame>>

NBReturned ==
    /\ ~Idle
    /\ lastCall' = NoCall
    /\ UNCHANGED <<serial, nbStats, available, nbFrame>>

NextNB ==
    \/ NBWrite
    \/ NBResetStats
    \/ NBSetAvailable
    \/ NBReturned

SpecNB == InitNB /\ [][NextNB]_vars

(***************************************************************************)
(* C10: whenever the transport's available capacity is below the minimum   *)
(* threshold (20 bytes), write with a non-empty message of any length puts *)
(* no byte on the transport, calls nothing that can wait, and increments   *)
(* the dropped-message counter by exactly one and the dropped-byte counter *)
(* by the message length (the partial-write counter stays).                *)
(***************************************************************************)
C10_BelowMinimumDropsWhole ==
    (lastCall.op = "write" /\ lastCall.length > 0
        /\ lastCall.available < MIN_BUFFER_SPACE)
        => /\ serial = << >>
           /\ lastCall.calls = 0
           /\ available = lastCall.available
           /\ nbStats.droppedMessages = lastCall.before.droppedMessages + 1
           /\ nbStats.droppedBytes = lastCall.before.droppedBytes + lastCall.length
           /\ nbStats.partialWrites = lastCall.before.partialWrites

\* A short message that would have fitted is dropped whole, after an
\* earlier message was dropped too.
C10_Witness ==
    /\ lastCall.op = "write"
    /\ lastCall.length > 0 /\ lastCall.length <= lastCall.available
    /\ lastCall.available < MIN_BUFFER_SPACE
    /\ lastCall.before.droppedMessages > 0
    /\ nbStats.droppedMessages = lastCall.before.droppedMessages + 1

(***************************************************************************)
(* C11: when the available capacity is at least the threshold but less     *)
(* than the message length, write puts a prefix of the message followed by *)
(* the truncation marker on the transport, increments the partial-write    *)
(* counter by one and the dropped-byte counter by the number of message    *)
(* bytes not written, leaves the dropped-message counter alone, and writes *)
(* no more bytes (prefix plus marker) than the capacity it observed; when  *)
(* the capacity is at least the length the whole message is written and no *)
(* counter changes.                                                        *)
(***************************************************************************)
C11_PartialWritePrefixAndMarker ==
    (lastCall.op = "write" /\ lastCall.length > 0
        /\ lastCall.available >= MIN_BUFFER_SPACE)
        => IF lastCall.available >= lastCall.length
           THEN /\ serial = Bytes(lastCall.length)
                /\ nbStats = lastCall.before
           ELSE LET prefix == Len(serial) - TRUNCATION_MARKER_LEN
                IN /\ prefix > 0
                   /\ SubSeq(serial, 1, prefix) = SubSeq(Bytes(lastCall.length), 1, prefix)
                   /\ SubSeq(serial, prefix + 1, Len(serial)) = Marker
                   /\ Len(serial) <= lastCall.available
                   /\ nbStats.partialWrites = lastCall.before.partialWrites + 1
                   /\ nbStats.droppedBytes =
                          lastCall.before.droppedBytes + (lastCall.length - prefix)
                   /\ nbStats.droppedMessages = lastCall.before.droppedMessages

\* A message longer than the free space was cut, after an earlier one was.
C11_Witness ==
    /\ lastCall.op = "write"
    /\ lastCall.available >= MIN_BUFFER_SPACE
    /\ lastCall.available < lastCall.length
    /\ lastCall.before.partialWrites > 0
    /\ nbStats.partialWrites = lastCall.before.partialWrites + 1
    /\ Len(serial) = lastCall.available

(***************************************************************************)
(* SpecLive: log and logDirect step by step, called by two producer tasks  *)
(* while a third task reconfigures the logger and starts and stops the     *)
(* subscriber task, and the subscriber task drains the queue.  A producer  *)
(* waits only for locks, each wait bounded by its timeout; the backend's   *)
(* write returns.  Two steps have no defined outcome in C++: vsnprintf     *)
(* with a null format, and xQueueSend on the queue that stopSubscriberTask *)
(* deleted after the producer had seen it; either may go on as if nothing  *)
(* had happened or halt the task ("fault").                                *)
(***************************************************************************)
Producers == {"t1", "t2"}
Controller == "t3"

\* Rate-limited calls counted before the producers stop calling log.
LiveDropped == 1

InitLive ==
    /\ InitLogger
    /\ InitObs
    /\ maxLogsPerSecond = 1
    /\ now = 0

\* What no step of this specification changes.
liveFixed == <<hasMutex, poolMutex, globalLogLevel, tagLevels_, backends, now,
               serial, available, nbStats, mutexInitialized, tsStats, serialMutex,
               semaphores, invoked, obsVars>>

\* xQueueSend with no wait: the item is dropped when the queue is full.
QueueSend(item) ==
    IF Len(subscriberQueue.items) < CONFIG_LOG_SUBSCRIBER_QUEUE_SIZE
    THEN [subscriberQueue EXCEPT !.items = Append(@, item)]
    ELSE subscriberQueue

\* pool.acquire() as one step; malloc may also fail.
AcquireChoices ==
    LET a == Acquire(pool, heapUsed)
    IN IF a.buf \in Slots THEN {a}
       ELSE {a, [buf |-> NullBuf, pool |-> pool, heap |-> heapUsed]}

LiveCall(t) ==
    /\ pc[t] = "idle"
    /\ \E op \in {"log", "logDirect"}, format \in {"ok", "null"} :
          /\ op = "logDirect" => format = "ok"
          /\ op = "log" => droppedLogs < LiveDropped
          /\ local' = [local EXCEPT ![t] = [NoLocal EXCEPT !.op = op, !.format = format]]
    /\ pc' = [pc EXCEPT ![t] = "filter"]
    /\ UNCHANGED <<mutexOwner, isLoggingEnabled, maxLogsPerSecond, lastLogTime,
                   logCounter, droppedLogs, mutexTimeouts_, subscribers,
                   subscriberQueue, pool, heapUsed, worker, liveFixed>>

\* isLevelEnabledForTag (in log and again in logV; once in logDirect).
LiveFilter(t) ==
    /\ pc[t] = "filter"
    /\ IF ~IsLevelEnabledForTag(TagB, ESP_LOG_INFO)
       THEN /\ pc' = [pc EXCEPT ![t] = "idle"]
            /\ local' = [local EXCEPT ![t] = NoLocal]
       ELSE /\ pc' = [pc EXCEPT ![t] = IF local[t].op = "log" THEN "rate" ELSE "notify"]
            /\ local' = local
    /\ UNCHANGED <<mutexOwner, isLoggingEnabled, maxLogsPerSecond, lastLogTime,
                   logCounter, droppedLogs, mutexTimeouts_, subscribers,
                   subscriberQueue, pool, heapUsed, worker, liveFixed>>

LiveRate(t) ==
    /\ pc[t] = "rate"
    /\ LET r == CheckRateLimit
       IN /\ lastLogTime' = r.lastLogTime
          /\ logCounter' = r.logCounter
          /\ droppedLogs' = r.droppedLogs
          /\ mutexTimeouts_' = r.mutexTimeouts_
          /\ IF r.allowed
             THEN pc' = [pc EXCEPT ![t] = "acquire1"] /\ local' = local
             ELSE /\ pc' = [pc EXCEPT ![t] = "idle"]
                  /\ local' = [local EXCEPT ![t] = NoLocal]
    /\ UNCHANGED <<mutexOwner, isLoggingEnabled, maxLogsPerSecond, subscribers,
                   subscriberQueue, pool, heapUsed, worker, liveFixed>>

\* char* formatBuffer = pool.acquire(); if (!formatBuffer) return;
LiveAcquireFormat(t) ==
    /\ pc[t] = "acquire1"
    /\ \E a \in AcquireChoices :
          /\ pool' = a.pool /\ heapUsed' = a.heap
          /\ IF a.buf = NullBuf
             THEN /\ pc' = [pc EXCEPT ![t] = "idle"]
                  /\ local' = [local EXCEPT ![t] = NoLocal]
             ELSE /\ pc' = [pc EXCEPT ![t] = "format"]
                  /\ local' = [local EXCEPT ![t].formatBuffer = a.buf]
    /\ UNCHANGED <<mutexOwner, isLoggingEnabled, maxLogsPerSecond, lastLogTime,
                   logCounter, droppedLogs, mutexTimeouts_, subscribers,
                   subscriberQueue, worker, liveFixed>>

\* vsnprintf(formatBuffer, CONFIG_LOG_BUFFER_SIZE, format, args).
LiveFormat(t) ==
    /\ pc[t] = "format"
    /\ \E next \in {"notify", "fault"} :
          /\ local[t].format = "ok" => next = "notify"
          /\ pc' = [pc EXCEPT ![t] = next]
          /\ local' = [local EXCEPT ![t].why =
                          IF next = "fault" THEN "nullFormat" ELSE @]
    /\ UNCHANGED <<mutexOwner, isLoggingEnabled, maxLogsPerSecond, lastLogTime,
                   logCounter, droppedLogs, mutexTimeouts_, subscribers,
                   subscriberQueue, pool, heapUsed, worker, liveFixed>>

\* notifySubscribers up to the test of subscriberQueue; without a queue the
\* callbacks are invoked here, on the producer's thread, and return.
LiveNotify(t) ==
    /\ pc[t] = "notify"
    /\ pc' = [pc EXCEPT ![t] = IF Len(subscribers) # 0 /\ subscriberQueue.exists
                               THEN "send" ELSE "acquire2"]
    /\ UNCHANGED <<local, mutexOwner, isLoggingEnabled, maxLogsPerSecond, lastLogTime,
                   logCounter, droppedLogs, mutexTimeouts_, subscribers,
                   subscriberQueue, pool, heapUsed, worker, liveFixed>>

\* xQueueSend(subscriberQueue, &msg, 0).
LiveSend(t) ==
    /\ pc[t] = "send"
    /\ IF subscriberQueue.exists
       THEN /\ subscriberQueue' = QueueSend([level |-> ESP_LOG_INFO, tag |-> TagB])
            /\ pc' = [pc EXCEPT ![t] = "acquire2"]
            /\ local' = local
       ELSE /\ subscriberQueue' = subscriberQueue
            /\ \E next \in {"acquire2", "fault"} :
                  /\ pc' = [pc EXCEPT ![t] = next]
                  /\ local' = [local EXCEPT ![t].why =
                                  IF next = "fault" THEN "queueDeleted" ELSE @]
    /\ UNCHANGED <<mutexOwner, isLoggingEnabled, maxLogsPerSecond, lastLogTime,
                   logCounter, droppedLogs, mutexTimeouts_, subscribers,
                   pool, heapUsed, worker, liveFixed>>

\* char* fullMessage = pool.acquire(); without it the record goes to esp_log_write.
LiveAcquireFull(t) ==
    /\ pc[t] = "acquire2"
    /\ \E a \in AcquireChoices :
          /\ pool' = a.pool /\ heapUsed' = a.heap
          /\ local' = [local EXCEPT ![t].fullMessage = a.buf]
          /\ pc' = [pc EXCEPT ![t] = IF a.buf = NullBuf THEN "release" ELSE "take"]
    /\ UNCHANGED <<mutexOwner, isLoggingEnabled, maxLogsPerSecond, lastLogTime,
                   logCounter, droppedLogs, mutexTimeouts_, subscribers,
                   subscriberQueue, worker, liveFixed>>

\* writeToBackends: the take of backendMutex.
LiveWriteTake(t) ==
    /\ pc[t] = "take"
    /\ mutexOwner["backendMutex"] = NoTask
    /\ mutexOwner' = [mutexOwner EXCEPT !["backendMutex"] = t]
    /\ pc' = [pc EXCEPT ![t] = "writing"]
    /\ UNCHANGED <<local, isLoggingEnabled, maxLogsPerSecond, lastLogTime,
                   logCounter, droppedLogs, mutexTimeouts_, subscribers,
                   subscriberQueue, pool, heapUsed, worker, liveFixed>>

\* The take times out: the record is not written.
LiveWriteTimeout(t) ==
    /\ pc[t] = "take"
    /\ mutexOwner["backendMutex"] # NoTask
    /\ pc' = [pc EXCEPT ![t] = "release"]
    /\ UNCHANGED <<local, mutexOwner, isLoggingEnabled, maxLogsPerSecond, lastLogTime,
                   logCounter, droppedLogs, mutexTimeouts_, subscribers,
                   subscriberQueue, pool, heapUsed, worker, liveFixed>>

\* Every backend's write has returned; xSemaphoreGive(backendMutex).
LiveWriteDone(t) ==
    /\ pc[t] = "writing"
    /\ mutexOwner' = [mutexOwner EXCEPT !["backendMutex"] = NoTask]
    /\ pc' = [pc EXCEPT ![t] = "release"]
    /\ UNCHANGED <<local, isLoggingEnabled, maxLogsPerSecond, lastLogTime,
                   logCounter, droppedLogs, mutexTimeouts_, subscribers,
                   subscriberQueue, pool, heapUsed, worker, liveFixed>>

\* The release, with formatBuffer forgotten on the path without fullMessage.
LiveRelease_LeaksOnFallback(t) ==
    /\ pc[t] = "release"
    /\ LET r2 == Release(pool, heapUsed,
                         IF local[t].fullMessage = 0 THEN NullBuf ELSE local[t].fullMessage)
           r1 == Release(r2.pool, r2.heap,
                         IF local[t].formatBuffer = 0 \/ local[t].fullMessage = NullBuf
                         THEN NullBuf ELSE local[t].formatBuffer)
       IN pool' = r1.pool /\ heapUsed' = r1.heap
    /\ pc' = [pc EXCEPT ![t] = "idle"]
    /\ local' = [local EXCEPT ![t] = NoLocal]
    /\ UNCHANGED <<mutexOwner, isLoggingEnabled, maxLogsPerSecond, lastLogTime,
                   logCounter, droppedLogs, mutexTimeouts_, subscribers,
                   subscriberQueue, worker, liveFixed>>

\* pool.release(fullMessage); pool.release(formatBuffer); return.
LiveRelease(t) ==
    /\ pc[t] = "release"
    /\ LET r2 == Release(pool, heapUsed,
                         IF local[t].fullMessage = 0 THEN NullBuf ELSE local[t].fullMessage)
           r1 == Release(r2.pool, r2.heap,
                         IF local[t].formatBuffer = 0 THEN NullBuf ELSE local[t].formatBuffer)
       IN pool' = r1.pool /\ heapUsed' = r1.heap
    /\ pc' = [pc EXCEPT ![t] = "idle"]
    /\ local' = [local EXCEPT ![t] = NoLocal]
    /\ UNCHANGED <<mutexOwner, isLoggingEnabled, maxLogsPerSecond, lastLogTime,
                   logCounter, droppedLogs, mutexTimeouts_, subscribers,
                   subscriberQueue, worker, liveFixed>>

\* The steps that take a call in progress towards its return.
LiveStep(t) ==
    \/ LiveFilter(t)
    \/ LiveRate(t)
    \/ LiveAcquireFormat(t)
    \/ LiveFormat(t)
    \/ LiveNotify(t)
    \/ LiveSend(t)
    \/ LiveAcquireFull(t)
    \/ LiveWriteTake(t)
    \/ LiveWriteTimeout(t)
    \/ LiveWriteDone(t)
    \/ LiveRelease(t)

\* What the configuring task's calls and the subscriber task leave alone.
liveCalls == <<pc, local, mutexOwner, pool, heapUsed>>

LiveEnableLogging(enable) ==
    /\ pc[Controller] = "idle"
    /\ isLoggingEnabled' = enable
    /\ UNCHANGED <<liveCalls, maxLogsPerSecond, lastLogTime, logCounter, droppedLogs,
                   mutexTimeouts_, subscribers, subscriberQueue, worker, liveFixed>>

LiveAddSubscriber ==
    /\ pc[Controller] = "idle"
    /\ AddLogSubscriber("cb1")
    /\ UNCHANGED <<worker, obsVars>>

\* startSubscriberTask: xQueueCreate or xTaskCreate may fail; when the task
\* cannot be created the queue that was just created stays.
LiveStart ==
    /\ pc[Controller] = "idle"
    /\ ~worker.handle
    /\ \E queueOk, taskOk \in BOOLEAN :
          IF ~subscriberQueue.exists /\ ~queueOk
          THEN UNCHANGED <<subscriberQueue, worker>>
          ELSE /\ subscriberQueue' = [subscriberQueue EXCEPT !.exists = TRUE]
               /\ worker' = IF taskOk
                            THEN [handle |-> TRUE, running |-> TRUE, pc |-> "wait",
                                  tasks |-> 1]
                            ELSE NoWorker
    /\ UNCHANGED <<liveCalls, isLoggingEnabled, maxLogsPerSecond, lastLogTime, logCounter,
                   droppedLogs, mutexTimeouts_, subscribers, liveFixed>>

\* stopSubscriberTask up to its wait: the flag is cleared and a dummy message
\* is sent to wake the subscriber task.
StopBegin ==
    /\ pc[Controller] = "idle"
    /\ worker.handle
    /\ worker' = [worker EXCEPT !.running = FALSE]
    /\ subscriberQueue' = IF subscriberQueue.exists
                          THEN QueueSend([level |-> ESP_LOG_NONE, tag |-> EmptyTag])
                          ELSE subscriberQueue
    /\ pc' = [pc EXCEPT ![Controller] = "stopWait"]
    /\ UNCHANGED <<local, mutexOwner, pool, heapUsed, isLoggingEnabled, maxLogsPerSecond,
                   lastLogTime, logCounter, droppedLogs, mutexTimeouts_, subscribers,
                   liveFixed>>

\* The wait is over (the handle was cleared, or 50 delays have passed): the
\* task the handle names is deleted if the handle is still set, then the
\* queue.  A subscriber task the handle does not name stays.
StopFinish ==
    /\ pc[Controller] = "stopWait"
    /\ worker' = IF worker.handle
                 THEN [worker EXCEPT !.handle = FALSE, !.tasks = @ - 1,
                                     !.pc = IF worker.tasks > 1 THEN @ ELSE "none"]
                 ELSE worker
    /\ subscriberQueue' = [exists |-> FALSE, items |-> << >>]
    /\ pc' = [pc EXCEPT ![Controller] = "idle"]
    /\ UNCHANGED <<local, mutexOwner, pool, heapUsed, isLoggingEnabled, maxLogsPerSecond,
                   lastLogTime, logCounter, droppedLogs, mutexTimeouts_, subscribers,
                   liveFixed>>

\* subscriberTaskFunc: xQueueReceive returned a message.
WorkerReceive ==
    /\ worker.pc = "wait"
    /\ worker.running
    /\ subscriberQueue.exists
    /\ subscriberQueue.items # << >>
    /\ subscriberQueue' = [subscriberQueue EXCEPT !.items = Tail(@)]
    /\ worker' = [worker EXCEPT !.pc = "dispatch"]
    /\ UNCHANGED <<liveCalls, isLoggingEnabled, maxLogsPerSecond, lastLogTime, logCounter,
                   droppedLogs, mutexTimeouts_, subscribers, liveFixed>>

\* The callbacks are copied under subscriberMutex and invoked; they return.
WorkerDispatch ==
    /\ worker.pc = "dispatch"
    /\ worker.running
    /\ worker' = [worker EXCEPT !.pc = "wait"]
    /\ UNCHANGED <<liveCalls, isLoggingEnabled, maxLogsPerSecond, lastLogTime, logCounter,
                   droppedLogs, mutexTimeouts_, subscribers, subscriberQueue, liveFixed>>

\* The flag is seen cleared: subscriberTaskHandle = nullptr; vTaskDelete(nullptr).
WorkerExit ==
    /\ worker.pc \in {"wait", "dispatch"}
    /\ ~worker.running
    /\ worker' = [worker EXCEPT !.handle = FALSE, !.tasks = @ - 1,
                                !.pc = IF worker.tasks > 1 THEN @ ELSE "none"]
    /\ UNCHANGED <<liveCalls, isLoggingEnabled, maxLogsPerSecond, lastLogTime, logCounter,
                   droppedLogs, mutexTimeouts_, subscribers, subscriberQueue, liveFixed>>

NextLive ==
    \/ \E t \in Producers : LiveCall(t)
    \/ \E t \in Producers : LiveStep(t)
    \/ \E enable \in BOOLEAN : LiveEnableLogging(enable)
    \/ LiveAddSubscriber
    \/ LiveStart
    \/ StopBegin
    \/ StopFinish
    \/ WorkerReceive
    \/ WorkerDispatch
    \/ WorkerExit

\* The scheduler runs every ready task: a call in progress takes its next
\* step, the subscriber task runs, and stopSubscriberTask's wait ends.
SpecLive ==
    /\ InitLive
    /\ [][NextLive]_vars
    /\ \A t \in Producers : WF_vars(LiveStep(t))
    /\ WF_vars(StopFinish)
    /\ WF_vars(WorkerReceive \/ WorkerDispatch \/ WorkerExit)

\* C8: every call to log or logDirect returns to its caller; whatever goes
\* wrong on the way (filtered, rate limited, a lock timeout, no buffer, a full
\* queue) ends the call as a silent drop, never as an endless wait or a fault.
C8_EveryCallReturns ==
    \A t \in Producers : (pc[t] # "idle") ~> (pc[t] = "idle")

\* The part of C8 that holds: a call in progress returns or faults; it never
\* waits for ever.
C8_ReturnsUnlessFault ==
    \A t \in Producers : (pc[t] # "idle") ~> (pc[t] \in {"idle", "fault"})

\* A call has ended in a fault.
C8_Faulted ==
    \E t \in Producers : pc[t] = "fault"

(***************************************************************************)
(* SpecTS: ThreadSafeNonBlockingBackend::write called on one backend by    *)
(* two tasks, step by step,     while the transport's free space changes   *)
(* between the writes.  The counters are atomics; the three fetch_add of a *)
(* drop are taken as one step.  serial holds the last Serial.write: the    *)
(* writing task and the number of bytes.  lastCall records the last call   *)
(* that changed a counter or wrote: its task, length and outcome, the      *)
(* counters and the transport before it.                                   *)
(***************************************************************************)
LOCAL_BUFFER_SIZE == 128
TSLengths == {1, MaxLength}
TSAvailable == {0, MIN_BUFFER_SPACE - 1, MaxAvail}

InitTS ==
    /\ InitLogger
    /\ InitObs
    /\ maxLogsPerSecond = 0
    /\ now = 0

tsFrame == <<mutexInitialized, worker, nbStats, serialMutex, semaphores, invoked,
             hasMutex, poolMutex, isLoggingEnabled, globalLogLevel, tagLevels_,
             maxLogsPerSecond, lastLogTime, logCounter, droppedLogs, mutexTimeouts_,
             backends, subscribers, subscriberQueue, now, pool, heapUsed,
             prevCall, override, burst, recent>>

InWrite(t) == pc[t] \in {"tsCheck", "tsWrite", "tsGive"}

\* The message is dropped: droppedMessages_, droppedBytes_ and one more counter.
TSDrop(length, counter) ==
    [[tsStats EXCEPT !.droppedMessages_ = @ + 1, !.droppedBytes_ = @ + length]
        EXCEPT ![counter] = @ + 1]

TSCall(t, outcome) ==
    [op |-> "tsWrite", task |-> t, outcome |-> outcome, length |-> local[t].length,
     available |-> available, before |-> tsStats, sent |-> serial]

\* write up to the copy into localBuffer (a null or empty message returns at once).
TSWriteBegin(t) ==
    /\ pc[t] = "idle"
    /\ local[t].calls < MaxWrites
    /\ mutexInitialized /\ serialMutex # 0
    /\ \E length \in TSLengths :
          local' = [local EXCEPT ![t] =
                       [length |-> length,
                        copyLen |-> Min(length, LOCAL_BUFFER_SIZE - 1),
                        available |-> 0, calls |-> local[t].calls + 1, why |-> "none"]]
    /\ pc' = [pc EXCEPT ![t] = "tsTake"]
    /\ UNCHANGED <<mutexOwner, serial, available, tsStats, lastCall, tsFrame>>

\* xSemaphoreTake(mutex, 0) returns at once, whoever holds the mutex.
TSTake(t) ==
    /\ pc[t] = "tsTake"
    /\ IF mutexOwner["writeMutex_"] = NoTask
       THEN /\ mutexOwner' = [mutexOwner EXCEPT !["writeMutex_"] = t]
            /\ pc' = [pc EXCEPT ![t] = "tsCheck"]
            /\ UNCHANGED <<local, tsStats, lastCall>>
       ELSE /\ tsStats' = TSDrop(local[t].length, "mutexContention_")
            /\ lastCall' = TSCall(t, "contended")
            /\ pc' = [pc EXCEPT ![t] = "idle"]
            /\ local' = [local EXCEPT ![t].why = "contended"]
            /\ UNCHANGED mutexOwner
    /\ UNCHANGED <<serial, available, tsFrame>>

\* The capacity check of a call that returns holding the mutex.
TSCheck_KeepsMutex(t) ==
    /\ pc[t] = "tsCheck"
    /\ IF available < MIN_BUFFER_SPACE
       THEN /\ tsStats' = TSDrop(local[t].length, "bufferFull_")
            /\ lastCall' = TSCall(t, "full")
            /\ pc' = [pc EXCEPT ![t] = "idle"]
            /\ local' = [local EXCEPT ![t].why = "full"]
            /\ UNCHANGED mutexOwner
       ELSE /\ local' = [local EXCEPT ![t].available = available]
            /\ pc' = [pc EXCEPT ![t] = "tsWrite"]
            /\ UNCHANGED <<mutexOwner, tsStats, lastCall>>
    /\ UNCHANGED <<serial, available, tsFrame>>

\* size_t available = Serial.availableForWrite(); below the minimum the
\* mutex is given back and the message dropped.
TSCheck(t) ==
    /\ pc[t] = "tsCheck"
    /\ IF available < MIN_BUFFER_SPACE
       THEN /\ mutexOwner' = [mutexOwner EXCEPT !["writeMutex_"] = NoTask]
            /\ tsStats' = TSDrop(local[t].length, "bufferFull_")
            /\ lastCall' = TSCall(t, "full")
            /\ pc' = [pc EXCEPT ![t] = "idle"]
            /\ local' = [local EXCEPT ![t].why = "full"]
       ELSE /\ local' = [local EXCEPT ![t].available = available]
            /\ pc' = [pc EXCEPT ![t] = "tsWrite"]
            /\ UNCHANGED <<mutexOwner, tsStats, lastCall>>
    /\ UNCHANGED <<serial, available, tsFrame>>

\* Serial.write(localBuffer, toWrite) and the count of the bytes left out.
TSSerialWrite(t) ==
    /\ pc[t] = "tsWrite"
    /\ LET toWrite == Min(local[t].copyLen, local[t].available)
       IN /\ serial' = <<[task |-> t, k |-> toWrite]>>
          /\ available' = available - toWrite
          /\ tsStats' = IF toWrite < local[t].length
                        THEN [tsStats EXCEPT !.droppedBytes_ = @ + (local[t].length - toWrite)]
                        ELSE tsStats
    /\ lastCall' = TSCall(t, "written")
    /\ pc' = [pc EXCEPT ![t] = "tsGive"]
    /\ UNCHANGED <<local, mutexOwner, tsFrame>>

\* xSemaphoreGive(mutex); return.
TSGive(t) ==
    /\ pc[t] = "tsGive"
    /\ mutexOwner' = [mutexOwner EXCEPT !["writeMutex_"] = NoTask]
    /\ pc' = [pc EXCEPT ![t] = "idle"]
    /\ local' = [local EXCEPT ![t].why = "written"]
    /\ UNCHANGED <<serial, available, tsStats, lastCall, tsFrame>>

\* The transport's free space changes while nobody is inside Serial.write.
TSSetAvailable ==
    /\ \A t \in Producers : pc[t] # "tsWrite"
    /\ \E a \in TSAvailable : a # available /\ available' = a
    /\ UNCHANGED <<pc, local, mutexOwner, serial, tsStats, lastCall, tsFrame>>

NextTS ==
    \/ \E t \in Producers : TSWriteBegin(t)
    \/ \E t \in Producers : TSTake(t)
    \/ \E t \in Producers : TSCheck(t)
    \/ \E t \in Producers : TSSerialWrite(t)
    \/ \E t \in Producers : TSGive(t)
    \/ TSSetAvailable

SpecTS == InitTS /\ [][NextTS]_vars

(***************************************************************************)
(* C12: write never waits for the shared write mutex: when another task    *)
(* holds it the call returns at once, having written nothing and having    *)
(* incremented dropped-messages by one, dropped-bytes by the message       *)
(* length and the contention counter by one; when it gets the mutex and    *)
(* the capacity is below the threshold it drops the message and counts a   *)
(* buffer-full event; on every path the mutex is released before the call  *)
(* returns, and at most one task writes to the transport at a time.        *)
(***************************************************************************)
C12_NeverWaitsDropsAndCounts ==
    /\ \A t \in Producers : pc[t] = "tsTake" => ENABLED TSTake(t)
    /\ \A t \in Producers : InWrite(t) <=> mutexOwner["writeMutex_"] = t
    /\ Cardinality({t \in Producers : InWrite(t)}) <= 1
    /\ (lastCall.op = "tsWrite" /\ lastCall.outcome = "contended")
          => /\ serial = lastCall.sent
             /\ tsStats = [droppedMessages_ |-> lastCall.before.droppedMessages_ + 1,
                           droppedBytes_ |-> lastCall.before.droppedBytes_ + lastCall.length,
                           mutexContention_ |-> lastCall.before.mutexContention_ + 1,
                           bufferFull_ |-> lastCall.before.bufferFull_]
    /\ (lastCall.op = "tsWrite" /\ lastCall.outcome = "full")
          => /\ lastCall.available < MIN_BUFFER_SPACE
             /\ serial = lastCall.sent
             /\ tsStats.droppedMessages_ = lastCall.before.droppedMessages_ + 1
             /\ tsStats.droppedBytes_ = lastCall.before.droppedBytes_ + lastCall.length
             /\ tsStats.bufferFull_ = lastCall.before.bufferFull_ + 1
    /\ (lastCall.op = "tsWrite" /\ lastCall.outcome = "written")
          => lastCall.available >= MIN_BUFFER_SPACE

\* One task found the mutex held by the other, which is writing, and
\* returned with its message dropped.
C12_Witness ==
    /\ lastCall.op = "tsWrite" /\ lastCall.outcome = "contended"
    /\ lastCall.length = MaxLength
    /\ pc[lastCall.task] = "idle"
    /\ \E t \in Producers : t # lastCall.task /\ pc[t] = "tsWrite"
    /\ tsStats.mutexContention_ = 1

(***************************************************************************)
(* SpecEnsure: ensureMutexInitialized, run by the constructors of backends *)
(* that several tasks create at the same time, step by step.  The class's  *)
(* static handle starts as nullptr.  xSemaphoreCreateMutex may fail.  A    *)
(* mutex is known by a number; semaphores holds those created and not yet  *)
(* deleted.                                                                *)
(***************************************************************************)
MaxBackends == 1        \* backends each task constructs

InitEnsure ==
    /\ InitCalls
    /\ InitMembers
    /\ InitObs
    /\ hasMutex = TRUE /\ poolMutex = TRUE
    /\ maxLogsPerSecond = 0
    /\ now = 0
    /\ mutexInitialized = FALSE
    /\ serialMutex = 0
    /\ semaphores = {}

ensureFrame == <<serial, available, nbStats, tsStats, invoked, worker, hasMutex,
                 poolMutex, mutexOwner, isLoggingEnabled, globalLogLevel, tagLevels_,
                 maxLogsPerSecond, lastLogTime, logCounter, droppedLogs, mutexTimeouts_,
                 backends, subscribers, subscriberQueue, now, pool, heapUsed, obsVars>>

\* The handle xSemaphoreCreateMutex returns when it succeeds.
NewSemaphore == CHOOSE n \in 1..(Cardinality(semaphores) + 1) : n \notin semaphores

\* if (!mutexInitialized.load(acquire))
EnsureBegin(t) ==
    /\ pc[t] = "idle"
    /\ local[t].calls < MaxBackends
    /\ pc' = [pc EXCEPT ![t] = IF mutexInitialized THEN "idle" ELSE "create"]
    /\ local' = [local EXCEPT ![t] =
                    [newMutex |-> 0, calls |-> local[t].calls + 1,
                     created |-> local[t].calls > 0 /\ local[t].created]]
    /\ UNCHANGED <<mutexInitialized, serialMutex, semaphores, ensureFrame>>

\* SemaphoreHandle_t newMutex = xSemaphoreCreateMutex(); if (newMutex) ...
EnsureCreate(t) ==
    /\ pc[t] = "create"
    /\ \E ok \in BOOLEAN :
          IF ok
          THEN /\ semaphores' = semaphores \cup {NewSemaphore}
               /\ local' = [local EXCEPT ![t].newMutex = NewSemaphore, ![t].created = TRUE]
               /\ pc' = [pc EXCEPT ![t] = "cas"]
          ELSE /\ pc' = [pc EXCEPT ![t] = "idle"]
               /\ UNCHANGED <<local, semaphores>>
    /\ UNCHANGED <<mutexInitialized, serialMutex, ensureFrame>>

\* A plain store in place of the compare-and-swap.
EnsureCas_Overwrites(t) ==
    /\ pc[t] = "cas"
    /\ serialMutex' = local[t].newMutex
    /\ pc' = [pc EXCEPT ![t] = "store"]
    /\ UNCHANGED <<local, mutexInitialized, semaphores, ensureFrame>>

\* serialMutex.compare_exchange_strong(expected = nullptr, newMutex)
EnsureCas(t) ==
    /\ pc[t] = "cas"
    /\ IF serialMutex = 0
       THEN serialMutex' = local[t].newMutex /\ pc' = [pc EXCEPT ![t] = "store"]
       ELSE serialMutex' = serialMutex /\ pc' = [pc EXCEPT ![t] = "delete"]
    /\ UNCHANGED <<local, mutexInitialized, semaphores, ensureFrame>>

\* mutexInitialized.store(true, release)
EnsureStore(t) ==
    /\ pc[t] = "store"
    /\ mutexInitialized' = TRUE
    /\ pc' = [pc EXCEPT ![t] = "idle"]
    /\ UNCHANGED <<local, serialMutex, semaphores, ensureFrame>>

\* Another thread won the race: vSemaphoreDelete(newMutex)
EnsureDelete(t) ==
    /\ pc[t] = "delete"
    /\ semaphores' = semaphores \ {local[t].newMutex}
    /\ pc' = [pc EXCEPT ![t] = "idle"]
    /\ UNCHANGED <<local, mutexInitialized, serialMutex, ensureFrame>>

NextEnsure ==
    \/ \E t \in Tasks : EnsureBegin(t)
    \/ \E t \in Tasks : EnsureCreate(t)
    \/ \E t \in Tasks : EnsureCas(t)
    \/ \E t \in Tasks : EnsureStore(t)
    \/ \E t \in Tasks : EnsureDelete(t)

SpecEnsure == InitEnsure /\ [][NextEnsure]_vars

\* Some constructor has run and none is in progress.
Constructed ==
    /\ \A t \in Tasks : pc[t] = "idle"
    /\ \E t \in Tasks : local[t].calls > 0

(***************************************************************************)
(* C13 as claimed: for any number of tasks that construct backends at the  *)
(* same time, exactly one mutex is installed in the shared static handle   *)
(* and exactly one mutex stays alive once the constructors have returned.  *)
(***************************************************************************)
C13_Claimed ==
    Constructed => serialMutex # 0 /\ Cardinality(semaphores) = 1

(***************************************************************************)
(* C13: at most one mutex is ever installed in the shared static handle    *)
(* and it is never replaced or deleted afterwards; every task that lost    *)
(* the compare-and-swap deletes the mutex it created; so once the          *)
(* constructors have returned exactly one mutex is alive, the installed    *)
(* one, if any task's xSemaphoreCreateMutex succeeded, and none otherwise. *)
(***************************************************************************)
C13_OneMutexInstalledLosersDelete ==
    /\ [](/\ semaphores = (IF serialMutex = 0 THEN {} ELSE {serialMutex})
                 \cup {local[t].newMutex : t \in {u \in Tasks : pc[u] \in {"cas", "delete"}}}
          /\ \A t \in Tasks : pc[t] \in {"cas", "delete"} => local[t].newMutex # serialMutex
          /\ mutexInitialized => serialMutex # 0
          /\ Constructed =>
                IF \E t \in Tasks : local[t].calls > 0 /\ local[t].created
                THEN serialMutex # 0 /\ semaphores = {serialMutex}
                ELSE serialMutex = 0 /\ semaphores = {})
    /\ [][serialMutex # 0 => serialMutex' = serialMutex]_vars

\* Three constructors raced: one installed its mutex, another lost and
\* deleted its own, and for the third no mutex could be created.
C13_Witness ==
    /\ Constructed
    /\ serialMutex # 0 /\ semaphores = {serialMutex}
    /\ \E t1, t2, t3 \in Tasks :
          /\ local[t1].calls > 0 /\ local[t1].newMutex = serialMutex
          /\ local[t2].calls > 0 /\ local[t2].newMutex \notin {0, serialMutex}
          /\ local[t3].calls > 0 /\ ~local[t3].created

(***************************************************************************)
(* SpecFan: what a record reaches.  One task registers and removes         *)
(* backends and subscribers and logs; startSubscriberTask is never called, *)
(* so notifications take the synchronous path.  The logger was constructed *)
(* either with the scheduler running or before its start (no mutex).       *)
(* lastCall records the logging calls as before, and the calls of          *)
(* removeBackend and clearBackends with the list they found.               *)
(***************************************************************************)
MaxRegistered == 3      \* addBackend is followed up to this many entries

addBackend(backend) ==
    /\ backends' = IF ~hasMutex \/ TakeOk("backendMutex")
                   THEN Append(backends, backend) ELSE backends
    /\ UNCHANGED <<taskVars, hasMutex, poolMutex, mutexOwner, isLoggingEnabled,
                   globalLogLevel, tagLevels_, maxLogsPerSecond, lastLogTime, logCounter,
                   droppedLogs, mutexTimeouts_, subscribers, subscriberQueue, now,
                   pool, heapUsed>>

\* std::remove and erase drop every entry equal to backend.
removeBackend_FirstOnly(backend) ==
    /\ backends' = IF ~hasMutex \/ TakeOk("backendMutex")
                   THEN LET hits == {i \in 1..Len(backends) : backends[i] = backend}
                        IN IF hits = {} THEN backends
                           ELSE LET i == CHOOSE k \in hits : \A j \in hits : k <= j
                                IN SubSeq(backends, 1, i - 1)
                                       \o SubSeq(backends, i + 1, Len(backends))
                   ELSE backends
    /\ UNCHANGED <<taskVars, hasMutex, poolMutex, mutexOwner, isLoggingEnabled,
                   globalLogLevel, tagLevels_, maxLogsPerSecond, lastLogTime, logCounter,
                   droppedLogs, mutexTimeouts_, subscribers, subscriberQueue, now,
                   pool, heapUsed>>

removeBackend(backend) ==
    /\ backends' = IF ~hasMutex \/ TakeOk("backendMutex")
                   THEN Without(backends, backend) ELSE backends
    /\ UNCHANGED <<taskVars, hasMutex, poolMutex, mutexOwner, isLoggingEnabled,
                   globalLogLevel, tagLevels_, maxLogsPerSecond, lastLogTime, logCounter,
                   droppedLogs, mutexTimeouts_, subscribers, subscriberQueue, now,
                   pool, heapUsed>>

clearBackends ==
    /\ backends' = IF ~hasMutex \/ TakeOk("backendMutex") THEN << >> ELSE backends
    /\ UNCHANGED <<taskVars, hasMutex, poolMutex, mutexOwner, isLoggingEnabled,
                   globalLogLevel, tagLevels_, maxLogsPerSecond, lastLogTime, logCounter,
                   droppedLogs, mutexTimeouts_, subscribers, subscriberQueue, now,
                   pool, heapUsed>>

InitFan ==
    /\ InitFields
    /\ InitObs
    /\ hasMutex \in BOOLEAN
    /\ poolMutex \in BOOLEAN
    /\ maxLogsPerSecond = 1
    /\ now = 0

FanAddBackend ==
    /\ Idle
    /\ Len(backends) < MaxRegistered
    /\ \E backend \in Backends : addBackend(backend)
    /\ UNCHANGED obsVars

FanRemoveBackend ==
    /\ Idle
    /\ \E backend \in Backends :
          /\ removeBackend(backend)
          /\ lastCall' = [op |-> "removeBackend", backend |-> backend, before |-> backends]
    /\ UNCHANGED <<prevCall, override, burst, recent>>

FanClearBackends ==
    /\ Idle
    /\ clearBackends
    /\ lastCall' = [op |-> "clearBackends", before |-> backends]
    /\ UNCHANGED <<prevCall, override, burst, recent>>

NextFan ==
    \/ FanAddBackend
    \/ FanRemoveBackend
    \/ FanClearBackends
    \/ DirectAddSubscriber
    \/ DirectRemoveSubscriber
    \/ DirectEnableLogging
    \/ DirectLog
    \/ DirectLogDirect
    \/ Returned

SpecFan == InitFan /\ [][NextFan]_vars

\* The last call was a log or logDirect call that passed the filter and,
\* for log, was admitted by the rate limiter.
PassedAndAdmitted ==
    /\ lastCall.op \in {"log", "logDirect"}
    /\ lastCall.passed
    /\ lastCall.op = "log" => lastCall.admitted

Count(seq, x) == Cardinality({i \in 1..Len(seq) : seq[i] = x})
Range(seq) == {seq[i] : i \in 1..Len(seq)}

(***************************************************************************)
(* C16: if startSubscriberTask was never called, each log or logDirect     *)
(* call that passes filtering and rate admission while at least one        *)
(* subscriber is registered invokes every registered callback exactly      *)
(* once, on the caller's thread and before the call returns, whether or    *)
(* not any backend is registered or written.                               *)
(***************************************************************************)
C16_SyncFallbackInvokesEveryCallback ==
    (PassedAndAdmitted /\ ~subscriberQueue.exists /\ subscribers # << >>)
        => /\ lastCall.notified = subscribers
           /\ \A cb \in Range(subscribers) : Count(lastCall.notified, cb) = 1

\* C16 on a logger constructed with the scheduler running.
C16_HoldsWithMutexes ==
    hasMutex => C16_SyncFallbackInvokesEveryCallback

\* Two callbacks were invoked by a call that wrote to no backend.
C16_BothInvokedNoBackend ==
    /\ PassedAndAdmitted
    /\ hasMutex
    /\ Len(lastCall.notified) = 2
    /\ backends = << >> /\ lastCall.wrote = << >>

MaxWorkers == 2

InitNotifier ==
    /\ InitLogger
    /\ InitObs
    /\ maxLogsPerSecond = 0
    /\ now = 0

notifierFrame == <<local, mutexOwner, pool, heapUsed, isLoggingEnabled, maxLogsPerSecond,
                   lastLogTime, logCounter, droppedLogs, mutexTimeouts_, subscribers,
                   liveFixed>>

\* startSubscriberTask returns value to its caller t.
StartReturn(t, value) ==
    /\ pc' = [pc EXCEPT ![t] = "idle"]
    /\ local' = [local EXCEPT ![t] = [NoLocal EXCEPT !.op = "start", !.why = value]]

\* if (subscriberTaskHandle != nullptr) return true;
StartCheck(t) ==
    /\ pc[t] = "idle"
    /\ IF worker.handle
       THEN StartReturn(t, "true")
       ELSE /\ pc' = [pc EXCEPT ![t] = "startQueue"]
            /\ local' = [local EXCEPT ![t] = NoLocal]
    /\ UNCHANGED <<worker, subscriberQueue, mutexOwner, pool, heapUsed, isLoggingEnabled,
                   maxLogsPerSecond, lastLogTime, logCounter, droppedLogs, mutexTimeouts_,
                   subscribers, liveFixed>>

\* The queue is created if there is none; then subscriberTaskRunning.store(true).
StartQueue(t) ==
    /\ pc[t] = "startQueue"
    /\ \E queueOk \in BOOLEAN :
          IF ~subscriberQueue.exists /\ ~queueOk
          THEN /\ StartReturn(t, "false")
               /\ UNCHANGED <<worker, subscriberQueue>>
          ELSE /\ subscriberQueue' = [subscriberQueue EXCEPT !.exists = TRUE]
               /\ worker' = [worker EXCEPT !.running = TRUE]
               /\ pc' = [pc EXCEPT ![t] = "startTask"]
               /\ UNCHANGED local
    /\ UNCHANGED <<mutexOwner, pool, heapUsed, isLoggingEnabled, maxLogsPerSecond,
                   lastLogTime, logCounter, droppedLogs, mutexTimeouts_, subscribers,
                   liveFixed>>

\* xTaskCreate stores the new task in subscriberTaskHandle; when it fails the
\* flag and the handle are cleared and the queue stays.
StartTask(t) ==
    /\ pc[t] = "startTask"
    /\ worker.tasks < MaxWorkers
    /\ \E taskOk \in BOOLEAN :
          IF taskOk
          THEN /\ worker' = [worker EXCEPT !.handle = TRUE, !.tasks = @ + 1, !.pc = "wait"]
               /\ StartReturn(t, "true")
          ELSE /\ worker' = [worker EXCEPT !.handle = FALSE, !.running = FALSE]
               /\ StartReturn(t, "false")
    /\ UNCHANGED <<subscriberQueue, mutexOwner, pool, heapUsed, isLoggingEnabled,
                   maxLogsPerSecond, lastLogTime, logCounter, droppedLogs, mutexTimeouts_,
                   subscribers, liveFixed>>

NextNotifier ==
    \/ \E t \in Producers : StartCheck(t)
    \/ \E t \in Producers : StartQueue(t)
    \/ \E t \in Producers : StartTask(t)
    \/ StopBegin
    \/ StopFinish
    \/ WorkerExit

SpecNotifier == InitNotifier /\ [][NextNotifier]_vars

\* The notifier is inactive: no subscriber task, no queue.
NotifierInactive ==
    /\ ~worker.handle
    /\ ~worker.running
    /\ worker.tasks = 0
    /\ ~subscriberQueue.exists

\* The notifier is running: one subscriber task, named by the handle, and
\* its queue.
NotifierRunning ==
    /\ worker.handle
    /\ worker.running
    /\ worker.tasks = 1
    /\ subscriberQueue.exists

\* C17: the notifier is always either inactive or running, whatever tasks
\* call startSubscriberTask and stopSubscriberTask and however their calls
\* overlap: there is never more than one subscriber task, and when no call is
\* in progress and no stopped task is still on its way out the notifier is
\* inactive or running.
C17_InactiveOrRunningOneWorker ==
    /\ worker.tasks <= 1
    /\ (\A t \in Tasks : pc[t] = "idle") /\ (worker.tasks > 0 => worker.running) =>
          NotifierInactive \/ NotifierRunning

\* Two calls of startSubscriberTask have both returned true and two
\* subscriber tasks exist.
C17_TwoWorkers ==
    /\ \A t \in Producers : pc[t] = "idle" /\ local[t].op = "start" /\ local[t].why = "true"
    /\ worker.tasks = 2

(***************************************************************************)
(* SpecCb: the notification of the subscribers, step by step.  Either the  *)
(* subscriber task was started and runs on LogSub, and Caller's log calls  *)
(* send to its queue, or it was never started and both tasks call log and  *)
(* notify on their own thread.  A callback run by the subscriber task may  *)
(* itself call log: that call runs on LogSub, inside the callback.  (A     *)
(* callback that logs in the synchronous fallback is the matter of C39.)   *)
(* local[t] holds the snapshot localCallbacks of the notification in       *)
(* progress: todo is what is still to be invoked, done what was invoked.   *)
(***************************************************************************)
Caller == "t1"
LogSub == "t2"
CbTasks == {Caller, LogSub}

NoCb == [formatBuffer |-> 0, fullMessage |-> 0, snapshot |-> << >>, todo |-> << >>,
         done |-> << >>, nested |-> FALSE, logged |-> FALSE, wrote |-> FALSE]

InitCb ==
    /\ \E started \in BOOLEAN :
          /\ pc = [t \in Tasks |-> IF started /\ t = LogSub THEN "wait" ELSE "idle"]
          /\ worker = IF started
                      THEN [handle |-> TRUE, running |-> TRUE, pc |-> "wait", tasks |-> 1]
                      ELSE NoWorker
          /\ subscriberQueue = [exists |-> started, items |-> << >>]
    /\ hasMutex \in BOOLEAN
    /\ poolMutex = TRUE
    /\ local = [t \in Tasks |-> NoLocal]
    /\ serial = << >> /\ available = 0 /\ nbStats = NoStats /\ tsStats = NoTSStats
    /\ invoked = << >>
    /\ mutexInitialized = TRUE /\ serialMutex = 1 /\ semaphores = {1}
    /\ mutexOwner = [m \in Mutexes |-> NoTask]
    /\ isLoggingEnabled = TRUE
    /\ globalLogLevel = ESP_LOG_INFO
    /\ tagLevels_ = << >>
    /\ maxLogsPerSecond = 0 /\ lastLogTime = 0 /\ logCounter = 0
    /\ droppedLogs = 0 /\ mutexTimeouts_ = 0
    /\ backends = <<"b1">>
    /\ subscribers = << >>
    /\ pool = [i \in Slots |-> FALSE]
    /\ heapUsed = 0
    /\ now = 0
    /\ InitObs

\* What no step of this specification changes.
cbFixed == <<hasMutex, poolMutex, globalLogLevel, tagLevels_, backends, now, serial,
             available, nbStats, mutexInitialized, tsStats, serialMutex, semaphores,
             invoked, worker, isLoggingEnabled, maxLogsPerSecond, obsVars>>
rateVars == <<lastLogTime, logCounter, droppedLogs, mutexTimeouts_>>

\* The subscriber task's own loop runs on t (not a log call made by a callback).
InWorkerLoop(t) == t = LogSub /\ worker.handle /\ ~local[t].nested

\* Where a log call returns to: into the callback that made it, or to the caller.
CbReturn(t) ==
    IF local[t].nested
    THEN /\ pc' = [pc EXCEPT ![t] = "callback"]
         /\ local' = [local EXCEPT ![t].nested = FALSE, ![t].formatBuffer = 0,
                                   ![t].fullMessage = 0, ![t].wrote = FALSE]
    ELSE /\ pc' = [pc EXCEPT ![t] = "idle"]
         /\ local' = [local EXCEPT ![t] = NoLocal]

\* The callbacks of one notification were all invoked, or none could be:
\* the subscriber task waits for the next message; notifySubscribers returns
\* into logV.
CbNotified(t) ==
    IF InWorkerLoop(t)
    THEN /\ pc' = [pc EXCEPT ![t] = "wait"]
         /\ local' = [local EXCEPT ![t] = NoLocal]
    ELSE /\ pc' = [pc EXCEPT ![t] = "acquire2"]
         /\ local' = [local EXCEPT ![t].snapshot = << >>, ![t].todo = << >>,
                                   ![t].done = << >>]

\* log(ESP_LOG_INFO, TagB, ...) is called and passes the level filter.
CbCall(t) ==
    /\ pc[t] = "idle"
    /\ IsLevelEnabledForTag(TagB, ESP_LOG_INFO)
    /\ pc' = [pc EXCEPT ![t] = "rate"]
    /\ local' = [local EXCEPT ![t] = NoCb]
    /\ UNCHANGED <<mutexOwner, pool, heapUsed, subscribers, subscriberQueue, rateVars,
                   cbFixed>>

\* if (!checkRateLimit()) return;
CbRate(t) ==
    /\ pc[t] = "rate"
    /\ LET r == CheckRateLimit
       IN /\ lastLogTime' = r.lastLogTime
          /\ logCounter' = r.logCounter
          /\ droppedLogs' = r.droppedLogs
          /\ mutexTimeouts_' = r.mutexTimeouts_
          /\ IF r.allowed
             THEN pc' = [pc EXCEPT ![t] = "acquire1"] /\ local' = local
             ELSE CbReturn(t)
    /\ UNCHANGED <<mutexOwner, pool, heapUsed, subscribers, subscriberQueue, cbFixed>>

\* char* formatBuffer = pool.acquire(); if (!formatBuffer) return; vsnprintf.
CbAcquireFormat(t) ==
    /\ pc[t] = "acquire1"
    /\ \E a \in AcquireChoices :
          /\ pool' = a.pool /\ heapUsed' = a.heap
          /\ IF a.buf = NullBuf
             THEN CbReturn(t)
             ELSE /\ pc' = [pc EXCEPT ![t] = "notify"]
                  /\ local' = [local EXCEPT ![t].formatBuffer = a.buf]
    /\ UNCHANGED <<mutexOwner, subscribers, subscriberQueue, rateVars, cbFixed>>

\* xQueueSend(subscriberQueue, &msg, portMAX_DELAY): the send waits for room.
CbNotify_SendWaits(t) ==
    /\ pc[t] = "notify"
    /\ IF Len(subscribers) = 0
       THEN /\ pc' = [pc EXCEPT ![t] = "acquire2"]
            /\ UNCHANGED <<subscriberQueue, local>>
       ELSE IF subscriberQueue.exists
            THEN /\ Len(subscriberQueue.items) < CONFIG_LOG_SUBSCRIBER_QUEUE_SIZE
                 /\ subscriberQueue' = QueueSend([level |-> ESP_LOG_INFO, tag |-> TagB])
                 /\ pc' = [pc EXCEPT ![t] = "acquire2"]
                 /\ UNCHANGED local
            ELSE /\ pc' = [pc EXCEPT ![t] = "cbTake"]
                 /\ UNCHANGED <<subscriberQueue, local>>
    /\ UNCHANGED <<mutexOwner, pool, heapUsed, subscribers, rateVars, cbFixed>>

\* notifySubscribers up to the fallback: no subscriber, nothing to do; with a
\* queue, xQueueSend(subscriberQueue, &msg, 0) and return.
CbNotify(t) ==
    /\ pc[t] = "notify"
    /\ IF Len(subscribers) = 0
       THEN /\ pc' = [pc EXCEPT ![t] = "acquire2"]
            /\ UNCHANGED <<subscriberQueue, local>>
       ELSE IF subscriberQueue.exists
            THEN /\ subscriberQueue' = QueueSend([level |-> ESP_LOG_INFO, tag |-> TagB])
                 /\ pc' = [pc EXCEPT ![t] = "acquire2"]
                 /\ UNCHANGED local
            ELSE /\ pc' = [pc EXCEPT ![t] = "cbTake"]
                 /\ UNCHANGED <<subscriberQueue, local>>
    /\ UNCHANGED <<mutexOwner, pool, heapUsed, subscribers, rateVars, cbFixed>>

\* subscriberTaskFunc: xQueueReceive returned a message.
CbReceive(t) ==
    /\ t = LogSub
    /\ pc[t] = "wait"
    /\ subscriberQueue.items # << >>
    /\ subscriberQueue' = [subscriberQueue EXCEPT !.items = Tail(@)]
    /\ pc' = [pc EXCEPT ![t] = "cbTake"]
    /\ local' = [local EXCEPT ![t] = NoCb]
    /\ UNCHANGED <<mutexOwner, pool, heapUsed, subscribers, rateVars, cbFixed>>

\* if (subscriberMutex && xSemaphoreTake(subscriberMutex, ...) == pdTRUE):
\* without the mutex, or when the take times out, no callback is invoked.
CbTake(t) ==
    /\ pc[t] = "cbTake"
    /\ IF hasMutex /\ mutexOwner["subscriberMutex"] = NoTask
       THEN /\ mutexOwner' = [mutexOwner EXCEPT !["subscriberMutex"] = t]
            /\ pc' = [pc EXCEPT ![t] = "cbCopy"]
            /\ UNCHANGED local
       ELSE /\ CbNotified(t)
            /\ UNCHANGED mutexOwner
    /\ UNCHANGED <<pool, heapUsed, subscribers, subscriberQueue, rateVars, cbFixed>>

\* The callbacks are copied and invoked with subscriberMutex still held.
CbCopy_KeepsMutex(t) ==
    /\ pc[t] = "cbCopy"
    /\ local' = [local EXCEPT
                    ![t].snapshot = subscribers,
                    ![t].todo = [i \in 1..Len(subscribers) |-> subscribers[i]]]
    /\ pc' = [pc EXCEPT ![t] = "cbInvoke"]
    /\ UNCHANGED <<mutexOwner, pool, heapUsed, subscribers, subscriberQueue, rateVars,
                   cbFixed>>

\* The copy, with every callback the logger ever knew to be invoked, not
\* only those registered now.
CbCopy_AllCallbacks(t) ==
    /\ pc[t] = "cbCopy"
    /\ local' = [local EXCEPT
                    ![t].snapshot = subscribers,
                    ![t].todo = <<"cb1", "cb2">>]
    /\ mutexOwner' = [mutexOwner EXCEPT !["subscriberMutex"] = NoTask]
    /\ pc' = [pc EXCEPT ![t] = "cbInvoke"]
    /\ UNCHANGED <<pool, heapUsed, subscribers, subscriberQueue, rateVars, cbFixed>>

\* localCallbacks[i] = subscribers[i] for i < subscriberCount; xSemaphoreGive.
CbCopy(t) ==
    /\ pc[t] = "cbCopy"
    /\ local' = [local EXCEPT
                    ![t].snapshot = subscribers,
                    ![t].todo = [i \in 1..Len(subscribers) |-> subscribers[i]]]
    /\ mutexOwner' = [mutexOwner EXCEPT !["subscriberMutex"] = NoTask]
    /\ pc' = [pc EXCEPT ![t] = "cbInvoke"]
    /\ UNCHANGED <<pool, heapUsed, subscribers, subscriberQueue, rateVars, cbFixed>>

\* for (i = 0; i < localCount; i++) localCallbacks[i](level, tag, message);
CbInvoke(t) ==
    /\ pc[t] = "cbInvoke"
    /\ IF local[t].todo = << >>
       THEN CbNotified(t)
       ELSE /\ pc' = [pc EXCEPT ![t] = "callback"]
            /\ local' = [local EXCEPT ![t].todo = Tail(@),
                                      ![t].done = Append(@, Head(local[t].todo)),
                                      ![t].logged = FALSE]
    /\ UNCHANGED <<mutexOwner, pool, heapUsed, subscribers, subscriberQueue, rateVars,
                   cbFixed>>

\* The callback the subscriber task is running calls log (once).
CbCallbackLogs(t) ==
    /\ pc[t] = "callback"
    /\ InWorkerLoop(t)
    /\ ~local[t].logged
    /\ IsLevelEnabledForTag(TagB, ESP_LOG_INFO)
    /\ pc' = [pc EXCEPT ![t] = "rate"]
    /\ local' = [local EXCEPT ![t].nested = TRUE, ![t].logged = TRUE]
    /\ UNCHANGED <<mutexOwner, pool, heapUsed, subscribers, subscriberQueue, rateVars,
                   cbFixed>>

\* The callback returns.
CbCallbackReturns(t) ==
    /\ pc[t] = "callback"
    /\ pc' = [pc EXCEPT ![t] = "cbInvoke"]
    /\ UNCHANGED <<local, mutexOwner, pool, heapUsed, subscribers, subscriberQueue,
                   rateVars, cbFixed>>

\* char* fullMessage = pool.acquire(); without it the record goes to esp_log_write.
CbAcquireFull(t) ==
    /\ pc[t] = "acquire2"
    /\ \E a \in AcquireChoices :
          /\ pool' = a.pool /\ heapUsed' = a.heap
          /\ local' = [local EXCEPT ![t].fullMessage = a.buf]
          /\ pc' = [pc EXCEPT ![t] = IF a.buf = NullBuf THEN "release" ELSE "take"]
    /\ UNCHANGED <<mutexOwner, subscribers, subscriberQueue, rateVars, cbFixed>>

\* writeToBackends: without backendMutex the backends are written at once;
\* otherwise the mutex is taken, or the take times out and the record is not
\* written.
CbWriteTake(t) ==
    /\ pc[t] = "take"
    /\ IF ~hasMutex
       THEN /\ pc' = [pc EXCEPT ![t] = "release"]
            /\ local' = [local EXCEPT ![t].wrote = backends # << >>]
            /\ UNCHANGED mutexOwner
       ELSE IF mutexOwner["backendMutex"] = NoTask
            THEN /\ mutexOwner' = [mutexOwner EXCEPT !["backendMutex"] = t]
                 /\ pc' = [pc EXCEPT ![t] = "writing"]
                 /\ UNCHANGED local
            ELSE /\ pc' = [pc EXCEPT ![t] = "release"]
                 /\ UNCHANGED <<mutexOwner, local>>
    /\ UNCHANGED <<pool, heapUsed, subscribers, subscriberQueue, rateVars, cbFixed>>

\* Every backend's write has returned; xSemaphoreGive(backendMutex).
CbWriteDone(t) ==
    /\ pc[t] = "writing"
    /\ mutexOwner' = [mutexOwner EXCEPT !["backendMutex"] = NoTask]
    /\ pc' = [pc EXCEPT ![t] = "release"]
    /\ local' = [local EXCEPT ![t].wrote = backends # << >>]
    /\ UNCHANGED <<pool, heapUsed, subscribers, subscriberQueue, rateVars, cbFixed>>

\* pool.release(fullMessage); pool.release(formatBuffer); return.
CbRelease(t) ==
    /\ pc[t] = "release"
    /\ LET r2 == Release(pool, heapUsed,
                         IF local[t].fullMessage = 0 THEN NullBuf ELSE local[t].fullMessage)
           r1 == Release(r2.pool, r2.heap,
                         IF local[t].formatBuffer = 0 THEN NullBuf ELSE local[t].formatBuffer)
       IN pool' = r1.pool /\ heapUsed' = r1.heap
    /\ CbReturn(t)
    /\ UNCHANGED <<mutexOwner, subscribers, subscriberQueue, rateVars, cbFixed>>

\* The steps that take a call or a notification in progress further.
CbStep(t) ==
    \/ CbRate(t)
    \/ CbAcquireFormat(t)
    \/ CbNotify(t)
    \/ CbReceive(t)
    \/ CbTake(t)
    \/ CbCopy(t)
    \/ CbInvoke(t)
    \/ CbCallbackLogs(t)
    \/ CbCallbackReturns(t)
    \/ CbAcquireFull(t)
    \/ CbWriteTake(t)
    \/ CbWriteDone(t)
    \/ CbRelease(t)

\* addLogSubscriber and removeLogSubscriber, called by some other task.
CbAddSubscriber ==
    /\ \E callback \in Callbacks : AddLogSubscriber(callback)
    /\ UNCHANGED obsVars

CbRemoveSubscriber ==
    /\ \E callback \in Callbacks : RemoveLogSubscriber(callback)
    /\ UNCHANGED obsVars

NextCb ==
    \/ \E t \in CbTasks : CbCall(t)
    \/ \E t \in CbTasks : CbStep(t)
    \/ CbAddSubscriber
    \/ CbRemoveSubscriber

\* The scheduler runs every ready task.
SpecCb ==
    /\ InitCb
    /\ [][NextCb]_vars
    /\ \A t \in CbTasks : WF_vars(CbStep(t))

\* The logger's locks that task t holds.
Held(t) == {m \in Mutexes : mutexOwner[m] = t}

\* t is in a notification: it has the snapshot and is invoking from it.
Invoking(t) == pc[t] \in {"cbInvoke", "callback"}

\* C14: with the subscriber task running, a callback that calls log on the
\* same logger does not deadlock: whatever the subscriber task is doing (a
\* callback and the log call it makes included) it comes back to waiting for
\* the next message, and a log call of a producer returns.
C14_CallbackLoggingNoDeadlock ==
    /\ (worker.handle /\ pc[LogSub] # "wait") ~> (pc[LogSub] = "wait")
    /\ (worker.handle /\ pc[Caller] # "idle") ~> (pc[Caller] = "idle")

\* The subscriber task is inside the log call its callback made, about to
\* notify, while the queue is full and the producer is in a call too.
C14_Witness ==
    /\ worker.handle
    /\ pc[LogSub] = "notify"
    /\ local[LogSub].nested
    /\ Len(subscriberQueue.items) = CONFIG_LOG_SUBSCRIBER_QUEUE_SIZE
    /\ pc[Caller] # "idle"

\* C15: while a subscriber callback executes, on the subscriber task and in
\* the synchronous fallback, the task that invoked it holds none of the
\* logger's locks: the list is copied with subscriberMutex held and the
\* mutex is given back before the first callback is invoked.
C15_CallbacksRunWithoutLocks ==
    \A t \in CbTasks :
        /\ pc[t] = "callback" => Held(t) = {}
        /\ pc[t] = "cbCopy" => mutexOwner["subscriberMutex"] = t
        /\ Invoking(t) => mutexOwner["subscriberMutex"] # t

\* The subscriber task runs the second callback of a notification while the
\* producer holds backendMutex.
C15_Witness ==
    /\ worker.handle
    /\ pc[LogSub] = "callback"
    /\ Len(local[LogSub].done) = 2
    /\ mutexOwner["backendMutex"] = Caller

\* A callback runs in the synchronous fallback, on the caller's thread.
C15_SyncCallbackReached ==
    /\ ~worker.handle
    /\ pc[Caller] = "callback"

(***************************************************************************)
(* SpecOrder: the notifications of SpecCb with three callbacks that are    *)
(* registered and removed in any order while one task calls log; the       *)
(* callbacks themselves do not log.                                        *)
(***************************************************************************)
OrderCallbacks == {"cb1", "cb2", "cb3"}

OrderStep(t) ==
    \/ CbRate(t)
    \/ CbAcquireFormat(t)
    \/ CbNotify(t)
    \/ CbReceive(t)
    \/ CbTake(t)
    \/ CbCopy(t)
    \/ CbInvoke(t)
    \/ CbCallbackReturns(t)
    \/ CbAcquireFull(t)
    \/ CbWriteTake(t)
    \/ CbWriteDone(t)
    \/ CbRelease(t)

OrderAddSubscriber ==
    /\ \E callback \in OrderCallbacks : AddLogSubscriber(callback)
    /\ UNCHANGED obsVars

OrderRemoveSubscriber ==
    /\ \E callback \in OrderCallbacks : RemoveLogSubscriber(callback)
    /\ UNCHANGED obsVars

NextOrder ==
    \/ CbCall(Caller)
    \/ \E t \in CbTasks : OrderStep(t)
    \/ OrderAddSubscriber
    \/ OrderRemoveSubscriber

SpecOrder == InitCb /\ [][NextOrder]_vars

\* C18: the callbacks of a notification are invoked in the order of their
\* registration, on the subscriber task and in the synchronous fallback:
\* what was invoked so far and what is still to be invoked make up the list
\* of subscribers as it was when it was copied; a registration goes to the
\* end of that list and a removal leaves the others in their order.
C18_InvokedInRegistrationOrder ==
    /\ [](\A t \in CbTasks :
             Invoking(t) => local[t].done \o local[t].todo = local[t].snapshot)
    /\ [][subscribers' # subscribers =>
             \E callback \in OrderCallbacks :
                \/ subscribers' = Append(subscribers, callback)
                \/ subscribers' = SelectSeq(subscribers, LAMBDA x : x # callback)]_vars

\* Three callbacks were invoked for one notification, in the order cb2, cb3,
\* cb1 in which they were registered.
C18_Witness ==
    \E t \in CbTasks :
        /\ pc[t] = "callback"
        /\ local[t].done = <<"cb2", "cb3", "cb1">>

(***************************************************************************)
(* SpecCount: two tasks call log at an enabled level on a logger with one  *)
(* backend, its locks and a rate limit of two records per window; the      *)
(* steps are those of SpecCb.  No subscriber is registered and time stands *)
(* still, so every call after the two admitted ones is over the limit.     *)
(* local[t].wrote says whether the call in progress was written to the     *)
(* backend.                                                                *)
(***************************************************************************)
InitCount ==
    /\ InitLogger
    /\ InitObs
    /\ maxLogsPerSecond = 2
    /\ now = 0

CountCall(t) ==
    /\ droppedLogs < LiveDropped
    /\ CbCall(t)

CountStep(t) ==
    \/ CbRate(t)
    \/ CbAcquireFormat(t)
    \/ CbNotify(t)
    \/ CbAcquireFull(t)
    \/ CbWriteTake(t)
    \/ CbWriteDone(t)
    \/ CbRelease(t)

NextCount ==
    \/ \E t \in Producers : CountCall(t)
    \/ \E t \in Producers : CountStep(t)

SpecCount == InitCount /\ [][NextCount]_vars

\* The call of t returns in this step.
CallReturns(t) == pc[t] # "idle" /\ pc'[t] = "idle"

\* C20: every log call that returns was either written to the backend or
\* counted in droppedLogs, so that after N calls of T concurrent tasks the
\* backend's writes plus getDroppedLogs() are N: no call is lost uncounted.
C20_WrittenOrCountedDropped ==
    [][\A t \in Producers :
          CallReturns(t) => \/ local[t].wrote /\ droppedLogs' = droppedLogs
                            \/ ~local[t].wrote /\ droppedLogs' = droppedLogs + 1]_vars

\* The take of backendMutex by t2 timed out while t1 was writing: t2 is
\* about to return with its record neither written nor counted.
C20_SkippedOnTimeout ==
    /\ pc["t1"] = "writing"
    /\ pc["t2"] = "release"
    /\ local["t2"].fullMessage # NullBuf
    /\ ~local["t2"].wrote

(***************************************************************************)
(* SpecNull: log and logDirect called with null pointers, one call after   *)
(* another.  A call has a tag (NullTag is the null pointer) and a format   *)
(* or message, "ok" or "null".  log passes its format to vsnprintf without *)
(* looking at it: with a null format that call is undefined, it faults or  *)
(* it returns having written something to the buffer.  After a fault the   *)
(* program makes no further step.                                          *)
(***************************************************************************)
Pointers == {"ok", "null"}

InitNull ==
    /\ InitLogger
    /\ InitObs
    /\ maxLogsPerSecond = 1
    /\ now = 0

\* The limiter's state and the two counters, as a call finds them.
Counters ==
    [lastLogTime |-> lastLogTime, logCounter |-> logCounter,
     droppedLogs |-> droppedLogs, mutexTimeouts_ |-> mutexTimeouts_]

\* log(level, tag, format) reaches vsnprintf(formatBuffer, ..., format, args):
\* it passed the filter, was admitted and has its format buffer.
ReachesFormat(level, tag) ==
    /\ IsLevelEnabledForTag(tag, level)
    /\ CheckRateLimit.allowed
    /\ Acquire(pool, heapUsed).buf # NullBuf

\* logV as far as a vsnprintf that faults: the limiter has counted the call
\* and the format buffer is still held.
FaultOutcome(level, tag) ==
    LET r == CheckRateLimit
        formatBuffer == Acquire(pool, heapUsed)
    IN [passed |-> TRUE, admitted |-> TRUE, opened |-> r.opened,
        wrote |-> << >>, notified |-> << >>,
        lastLogTime |-> r.lastLogTime, logCounter |-> r.logCounter,
        droppedLogs |-> r.droppedLogs, mutexTimeouts_ |-> r.mutexTimeouts_,
        queue |-> subscriberQueue, pool |-> formatBuffer.pool, heap |-> formatBuffer.heap]

\* The state a call leaves and the record of the call, with its second
\* pointer, the counters it found and whether it faulted.
ApplyNull(op, level, tag, pointer, fault, o) ==
    /\ lastLogTime' = o.lastLogTime
    /\ logCounter' = o.logCounter
    /\ droppedLogs' = o.droppedLogs
    /\ mutexTimeouts_' = o.mutexTimeouts_
    /\ subscriberQueue' = o.queue
    /\ pool' = o.pool
    /\ heapUsed' = o.heap
    /\ lastCall' = [op |-> op, level |-> level, tag |-> tag, pointer |-> pointer,
                    fault |-> fault, wrote |-> o.wrote, notified |-> o.notified,
                    before |-> Counters]
    /\ UNCHANGED <<taskVars, hasMutex, poolMutex, mutexOwner, isLoggingEnabled, globalLogLevel,
                   tagLevels_, maxLogsPerSecond, backends, subscribers, now>>

\* log(level, tag, format, ...): no test of format anywhere on the way to
\* vsnprintf.
NullLog ==
    /\ Idle
    /\ droppedLogs < MaxDropped
    /\ \E level \in {ESP_LOG_INFO, ESP_LOG_DEBUG}, tag \in {NullTag, TagB},
          format \in Pointers, fault \in BOOLEAN :
          /\ fault => format = "null" /\ ReachesFormat(level, tag)
          /\ ApplyNull("log", level, tag, format, fault,
                       IF fault THEN FaultOutcome(level, tag)
                       ELSE LogOutcome(level, tag))
    /\ UNCHANGED <<prevCall, override, burst, recent>>

\* logDirect: if (!message) return; then as for a message.
NullLogDirect ==
    /\ Idle
    /\ \E level \in {ESP_LOG_INFO, ESP_LOG_DEBUG}, tag \in {NullTag, TagB},
          message \in Pointers :
          ApplyNull("logDirect", level, tag, message, FALSE,
                    IF message = "null"
                    THEN [LogDirectOutcome(ESP_LOG_NONE, tag) EXCEPT !.passed = FALSE]
                    ELSE LogDirectOutcome(level, tag))
    /\ UNCHANGED <<prevCall, override, burst, recent>>

NullAddSubscriber ==
    /\ Idle
    /\ AddLogSubscriber("cb1")
    /\ UNCHANGED obsVars

\* The call has returned to its caller.
NullReturned ==
    /\ ~Idle
    /\ ~lastCall.fault
    /\ Returned

NextNull ==
    \/ NullLog
    \/ NullLogDirect
    \/ NullAddSubscriber
    \/ DirectSetMax
    \/ NullReturned

SpecNull == InitNull /\ [][NextNull]_vars

\* The call wrote nothing, notified nobody, changed no counter and returned.
NoOp ==
    /\ ~lastCall.fault
    /\ lastCall.wrote = << >>
    /\ lastCall.notified = << >>
    /\ Counters = lastCall.before

\* C21: a log call with a null tag or a null format is a no-op: nothing is
\* written, no subscriber is notified, no counter changes and the call does
\* not fault; so is a logDirect call with a null message.
C21_NullArgumentsAreNoOps ==
    /\ (lastCall.op = "log" /\ (lastCall.tag = NullTag \/ lastCall.pointer = "null"))
            => NoOp
    /\ (lastCall.op = "logDirect" /\ lastCall.pointer = "null") => NoOp

\* What holds of the null pointers: logDirect with a null message is a no-op.
C21_NullMessageIsNoOp ==
    (lastCall.op = "logDirect" /\ lastCall.pointer = "null") => NoOp

\* log(ESP_LOG_INFO, "B", nullptr) has faulted in vsnprintf.
C21_NullFormatFaulted ==
    /\ lastCall.op = "log"
    /\ lastCall.tag = TagB
    /\ lastCall.pointer = "null"
    /\ lastCall.fault

\* log with a null tag and a format was written to the backend.
C21_NullTagWritten ==
    /\ lastCall.op = "log"
    /\ lastCall.tag = NullTag
    /\ lastCall.pointer = "ok"
    /\ lastCall.wrote = backends

(***************************************************************************)
(* SpecLock: the logger's calls while another task holds one of its locks. *)
(* The holder takes and gives one lock at a time between the caller's      *)
(* calls; a call that needs the lock held waits for its timeout and goes   *)
(* on without it.  lastCall.tried is the set of locks the call tried to    *)
(* take, lastCall.before the counters it found.                            *)
(***************************************************************************)
MaxTimeouts == 2        \* mutexTimeouts_ is followed up to this value
Holder == "t2"
LoggerMutexes == {"backendMutex", "subscriberMutex", "tagMutex", "rateLimitMutex",
                  "poolMutex"}

InitLock ==
    /\ InitLogger
    /\ InitObs
    /\ maxLogsPerSecond = 1
    /\ now = 0

\* The locks notifySubscribers, BufferPool::acquire and writeToBackends try
\* to take on the way from the filter to the backends.
EmitTried(h) ==
    LET fullMessage == Acquire(pool, h)
    IN (IF Len(subscribers) > 0 /\ ~subscriberQueue.exists /\ hasMutex
        THEN {"subscriberMutex"} ELSE {})
       \cup (IF poolMutex THEN {"poolMutex"} ELSE {})
       \cup (IF fullMessage.buf # NullBuf /\ hasMutex THEN {"backendMutex"} ELSE {})

\* The locks isLevelEnabledForTag tries to take.
FilterTried(level, tag) ==
    IF isLoggingEnabled /\ level # ESP_LOG_NONE /\ tag # NullTag /\ hasMutex
    THEN {"tagMutex"} ELSE {}

\* The locks a log call tries to take.
LogTried(level, tag) ==
    LET formatBuffer == Acquire(pool, heapUsed)
    IN FilterTried(level, tag)
       \cup (IF IsLevelEnabledForTag(tag, level)
             THEN (IF maxLogsPerSecond > 0 /\ hasMutex THEN {"rateLimitMutex"} ELSE {})
                  \cup (IF CheckRateLimit.allowed
                        THEN (IF poolMutex THEN {"poolMutex"} ELSE {})
                             \cup (IF formatBuffer.buf # NullBuf
                                   THEN EmitTried(formatBuffer.heap) ELSE {})
                        ELSE {})
             ELSE {})

\* The locks a logDirect call tries to take.
LogDirectTried(level, tag) ==
    FilterTried(level, tag)
    \cup (IF IsLevelEnabledForTag(tag, level) THEN EmitTried(heapUsed) ELSE {})

LockCall(op, level, tag, tried, o) ==
    [op |-> op, level |-> level, tag |-> tag, tried |-> tried,
     passed |-> o.passed, admitted |-> o.admitted, wrote |-> o.wrote,
     notified |-> o.notified, before |-> Counters]

\* A logging call and the record of it.
ApplyLock(op, level, tag, tried, o) ==
    /\ lastLogTime' = o.lastLogTime
    /\ logCounter' = o.logCounter
    /\ droppedLogs' = o.droppedLogs
    /\ mutexTimeouts_' = o.mutexTimeouts_
    /\ subscriberQueue' = o.queue
    /\ pool' = o.pool
    /\ heapUsed' = o.heap
    /\ lastCall' = LockCall(op, level, tag, tried, o)
    /\ UNCHANGED <<taskVars, hasMutex, poolMutex, mutexOwner, isLoggingEnabled, globalLogLevel,
                   tagLevels_, maxLogsPerSecond, backends, subscribers, now>>

\* What a call that is no logging call reports.
NoOutcome == [passed |-> FALSE, admitted |-> FALSE, wrote |-> << >>, notified |-> << >>]

LockLog ==
    /\ Idle
    /\ droppedLogs < MaxDropped
    /\ mutexTimeouts_ < MaxTimeouts
    /\ \E level \in {ESP_LOG_INFO, ESP_LOG_DEBUG}, tag \in {NullTag, TagA} :
          ApplyLock("log", level, tag, LogTried(level, tag), LogOutcome(level, tag))
    /\ UNCHANGED <<prevCall, override, burst, recent>>

LockLogDirect ==
    /\ Idle
    /\ \E level \in {ESP_LOG_INFO, ESP_LOG_DEBUG}, tag \in {NullTag, TagA} :
          ApplyLock("logDirect", level, tag, LogDirectTried(level, tag),
                    LogDirectOutcome(level, tag))
    /\ UNCHANGED <<prevCall, override, burst, recent>>

LockSetTagLevel ==
    /\ Idle
    /\ mutexTimeouts_ < MaxTimeouts
    /\ SetTagLevel(TagA, ESP_LOG_DEBUG)
    /\ lastCall' = LockCall("setTagLevel", ESP_LOG_DEBUG, TagA,
                            IF hasMutex THEN {"tagMutex"} ELSE {}, NoOutcome)
    /\ UNCHANGED <<prevCall, override, burst, recent>>

LockAddSubscriber ==
    /\ Idle
    /\ AddLogSubscriber("cb1")
    /\ lastCall' = LockCall("addLogSubscriber", ESP_LOG_NONE, NullTag,
                            IF hasMutex THEN {"subscriberMutex"} ELSE {}, NoOutcome)
    /\ UNCHANGED <<prevCall, override, burst, recent>>

LockRemoveSubscriber ==
    /\ Idle
    /\ RemoveLogSubscriber("cb1")
    /\ lastCall' = LockCall("removeLogSubscriber", ESP_LOG_NONE, NullTag,
                            IF hasMutex THEN {"subscriberMutex"} ELSE {}, NoOutcome)
    /\ UNCHANGED <<prevCall, override, burst, recent>>

LockTick ==
    /\ Idle
    /\ Tick
    /\ UNCHANGED obsVars

\* Another task takes one of the locks: it is inside a call of its own.
HolderTake(m) ==
    /\ Idle
    /\ \A other \in Mutexes : mutexOwner[other] = NoTask
    /\ mutexOwner' = [mutexOwner EXCEPT ![m] = Holder]
    /\ UNCHANGED <<taskVars, hasMutex, poolMutex, isLoggingEnabled, globalLogLevel, tagLevels_,
                   maxLogsPerSecond, lastLogTime, logCounter, droppedLogs,
                   mutexTimeouts_, backends, subscribers, subscriberQueue, now,
                   pool, heapUsed, obsVars>>

HolderGive(m) ==
    /\ Idle
    /\ mutexOwner[m] = Holder
    /\ mutexOwner' = [mutexOwner EXCEPT ![m] = NoTask]
    /\ UNCHANGED <<taskVars, hasMutex, poolMutex, isLoggingEnabled, globalLogLevel, tagLevels_,
                   maxLogsPerSecond, lastLogTime, logCounter, droppedLogs,
                   mutexTimeouts_, backends, subscribers, subscriberQueue, now,
                   pool, heapUsed, obsVars>>

NextLock ==
    \/ LockLog
    \/ LockLogDirect
    \/ LockSetTagLevel
    \/ LockAddSubscriber
    \/ LockRemoveSubscriber
    \/ LockTick
    \/ DirectSetMax
    \/ \E m \in LoggerMutexes : HolderTake(m)
    \/ \E m \in LoggerMutexes : HolderGive(m)
    \/ Returned

SpecLock == InitLock /\ [][NextLock]_vars

\* The locks the last call waited for in vain.
TimedOut == {m \in lastCall.tried : ~TakeOk(m)}

\* C22: when a call cannot take one of the internal locks (pool, backend
\* registry, tag table, rate limiter, subscriber registry) within the
\* timeout, the lock-timeout counter is incremented: getMutexTimeouts()
\* shows every skipped operation.
C22_EveryTimeoutCounted ==
    Idle \/ (TimedOut # {} => mutexTimeouts_ > lastCall.before.mutexTimeouts_)

\* The two places that count: setTagLevel and checkRateLimit.
C22_TagAndRateTimeoutsCounted ==
    Idle \/ (((lastCall.op = "setTagLevel" /\ "tagMutex" \in TimedOut)
                 \/ "rateLimitMutex" \in TimedOut)
                => mutexTimeouts_ = lastCall.before.mutexTimeouts_ + 1)

\* A log call passed the filter and the limiter, found backendMutex held,
\* wrote nothing and left the counter as it was.
C22_BackendTimeoutUncounted ==
    /\ lastCall.op = "log"
    /\ lastCall.admitted
    /\ TimedOut = {"backendMutex"}
    /\ lastCall.wrote = << >>
    /\ mutexTimeouts_ = lastCall.before.mutexTimeouts_

\* A call of checkRateLimit with a limit that found rateLimitMutex held.
RateLimitTimedOut ==
    /\ lastCall.op = "log"
    /\ lastCall.passed
    /\ maxLogsPerSecond > 0
    /\ "rateLimitMutex" \in TimedOut

\* C23: when checkRateLimit with a limit cannot take the limiter's lock
\* within the timeout, the call is not admitted, the window start, the
\* accepted count and the dropped count keep their values and the
\* lock-timeout counter is one higher.
C23_LimiterFailsClosed ==
    RateLimitTimedOut =>
        /\ ~lastCall.admitted
        /\ lastCall.wrote = << >>
        /\ lastLogTime = lastCall.before.lastLogTime
        /\ logCounter = lastCall.before.logCounter
        /\ droppedLogs = lastCall.before.droppedLogs
        /\ mutexTimeouts_ = lastCall.before.mutexTimeouts_ + 1

\* The limiter's lock timed out in a window that still had room.
C23_Witness ==
    /\ RateLimitTimedOut
    /\ lastCall.before.logCounter < maxLogsPerSecond
    /\ mutexTimeouts_ = 1

\* C26: with maxLogsPerSecond = 0 checkRateLimit admits every call and
\* leaves the dropped count as it is.
C26_UnlimitedAdmitsAll ==
    (lastCall.op = "log" /\ lastCall.passed /\ maxLogsPerSecond = 0) =>
        /\ lastCall.admitted
        /\ droppedLogs = lastCall.before.droppedLogs

\* An unlimited logger admitted a call while rateLimitMutex was held and
\* the window of the limit set before was full.
C26_Witness ==
    /\ lastCall.op = "log"
    /\ lastCall.passed
    /\ maxLogsPerSecond = 0
    /\ lastCall.admitted
    /\ mutexOwner["rateLimitMutex"] = Holder
    /\ logCounter = 1
    /\ (now - lastLogTime) % TimerMod < RATE_LIMIT_WINDOW_MS

(***************************************************************************)
(* SpecPre: one thread using a logger and a buffer pool constructed before *)
(* the scheduler starts: createMutexSafe returned nullptr four times and   *)
(* BufferPool() created no mutex.  The same calls are made on a logger     *)
(* with mutexes (hasMutex).  No time passes: all the calls fall into the   *)
(* window that is open at time 0.  override is the table of the levels     *)
(* set, burst.accepted the number of log calls admitted so far.            *)
(***************************************************************************)
PreTags == {TagA, TagB}
PreLevels == {ESP_LOG_ERROR, ESP_LOG_INFO, ESP_LOG_DEBUG}

InitPre ==
    /\ InitFields
    /\ InitObs
    /\ hasMutex \in BOOLEAN
    /\ poolMutex = hasMutex
    /\ maxLogsPerSecond = 1
    /\ now = 0

PreCall(op, level, tag) ==
    [op |-> op, level |-> level, tag |-> tag, passed |-> FALSE, admitted |-> FALSE,
     formatted |-> FALSE, wrote |-> << >>, notified |-> << >>, ret |-> NoLevel,
     buf |-> NullBuf, free |-> FALSE]

PreSetTagLevel ==
    /\ Idle
    /\ \E tag \in PreTags, level \in {ESP_LOG_ERROR, ESP_LOG_DEBUG} :
          /\ SetTagLevel(tag, level)
          /\ override' = SpecSetLevel(override, tag, level)
    /\ UNCHANGED <<lastCall, prevCall, burst, recent>>

PreSetLogLevel ==
    /\ Idle
    /\ \E level \in {ESP_LOG_WARN, ESP_LOG_INFO} : SetLogLevel(level)
    /\ UNCHANGED obsVars

PreAddSubscriber ==
    /\ Idle
    /\ AddLogSubscriber("cb1")
    /\ UNCHANGED obsVars

PreGetTagLevel ==
    /\ Idle
    /\ \E tag \in PreTags :
          lastCall' = [PreCall("getTagLevel", ESP_LOG_NONE, tag)
                          EXCEPT !.ret = GetTagLevel(tag)]
    /\ UNCHANGED <<codeVars, prevCall, override, burst, recent>>

PreIsLevelEnabledForTag ==
    /\ Idle
    /\ \E tag \in PreTags, level \in PreLevels :
          lastCall' = [PreCall("isLevelEnabledForTag", level, tag)
                          EXCEPT !.passed = IsLevelEnabledForTag(tag, level)]
    /\ UNCHANGED <<codeVars, prevCall, override, burst, recent>>

PreLog ==
    /\ Idle
    /\ burst.accepted < MaxBurst
    /\ droppedLogs < MaxDropped
    /\ \E tag \in PreTags, level \in PreLevels :
          LET o == LogOutcome(level, tag)
          IN /\ lastLogTime' = o.lastLogTime
             /\ logCounter' = o.logCounter
             /\ droppedLogs' = o.droppedLogs
             /\ mutexTimeouts_' = o.mutexTimeouts_
             /\ subscriberQueue' = o.queue
             /\ pool' = o.pool
             /\ heapUsed' = o.heap
             /\ lastCall' = [PreCall("log", level, tag)
                                EXCEPT !.passed = o.passed, !.admitted = o.admitted,
                                       !.formatted = o.admitted
                                           /\ Acquire(pool, heapUsed).buf # NullBuf,
                                       !.wrote = o.wrote, !.notified = o.notified]
             /\ burst' = [burst EXCEPT !.accepted = IF o.admitted THEN @ + 1 ELSE @]
    /\ UNCHANGED <<taskVars, hasMutex, poolMutex, mutexOwner, isLoggingEnabled, globalLogLevel,
                   tagLevels_, maxLogsPerSecond, backends, subscribers, now,
                   prevCall, override, recent>>

\* BufferPool::acquire called by the thread.
PreAcquire ==
    /\ Idle
    /\ LET o == Acquire(pool, heapUsed)
       IN /\ pool' = o.pool
          /\ heapUsed' = o.heap
          /\ lastCall' = [PreCall("acquire", ESP_LOG_NONE, NullTag)
                             EXCEPT !.buf = o.buf, !.free = FirstFree(pool) # 0]
    /\ UNCHANGED <<taskVars, hasMutex, poolMutex, mutexOwner, isLoggingEnabled, globalLogLevel,
                   tagLevels_, maxLogsPerSecond, lastLogTime, logCounter, droppedLogs,
                   mutexTimeouts_, backends, subscribers, subscriberQueue, now,
                   prevCall, override, burst, recent>>

\* BufferPool::release of a buffer the thread holds.
PreRelease ==
    /\ Idle
    /\ \E buf \in Slots \cup {HeapBuf} :
          /\ IF buf \in Slots THEN pool[buf] ELSE heapUsed > 0
          /\ pool' = Release(pool, heapUsed, buf).pool
          /\ heapUsed' = Release(pool, heapUsed, buf).heap
    /\ UNCHANGED <<taskVars, hasMutex, poolMutex, mutexOwner, isLoggingEnabled, globalLogLevel,
                   tagLevels_, maxLogsPerSecond, lastLogTime, logCounter, droppedLogs,
                   mutexTimeouts_, backends, subscribers, subscriberQueue, now, obsVars>>

NextPre ==
    \/ PreSetTagLevel
    \/ PreSetLogLevel
    \/ PreAddSubscriber
    \/ PreGetTagLevel
    \/ PreIsLevelEnabledForTag
    \/ PreLog
    \/ PreAcquire
    \/ PreRelease
    \/ Returned

SpecPre == InitPre /\ [][NextPre]_vars

\* What the calls of one thread give on a logger with mutexes.
SingleThreadResults ==
    /\ lastCall.op = "getTagLevel" => lastCall.ret = EffectiveThreshold(lastCall.tag)
    /\ lastCall.op \in {"isLevelEnabledForTag", "log"} =>
           lastCall.passed = ShouldPass(lastCall.level, lastCall.tag)
    /\ burst.accepted <= maxLogsPerSecond
    /\ (lastCall.op = "log" /\ lastCall.formatted) => lastCall.notified = subscribers
    /\ (lastCall.op = "acquire" /\ lastCall.free) => lastCall.buf \in Slots

\* C24: a logger and a pool created before the scheduler starts give one
\* thread the results a logger with mutexes gives: getTagLevel and
\* isLevelEnabledForTag honour the levels setTagLevel set, the rate limit
\* is enforced, the registered subscribers are notified and the pool hands
\* out its slots.
C24_PreSchedulerSameResults ==
    ~hasMutex => SingleThreadResults

\* The logger with mutexes gives these results.
C24_HoldsWithMutexes ==
    hasMutex => SingleThreadResults

\* Before the scheduler: setTagLevel("A", ESP_LOG_ERROR) was called and
\* getTagLevel("A") returns the global level.
C24_OverrideIgnored ==
    /\ ~hasMutex
    /\ lastCall.op = "getTagLevel"
    /\ override[lastCall.tag] = ESP_LOG_ERROR
    /\ lastCall.ret = globalLogLevel

\* Before the scheduler: more calls were admitted in one window than
\* maxLogsPerSecond.
C24_LimitNotEnforced ==
    /\ ~hasMutex
    /\ burst.accepted > maxLogsPerSecond

\* Before the scheduler: a record was written and the registered subscriber
\* was not notified.
C24_SubscriberNotNotified ==
    /\ ~hasMutex
    /\ lastCall.op = "log"
    /\ lastCall.wrote = backends
    /\ subscribers = <<"cb1">>
    /\ lastCall.notified = << >>

\* Before the scheduler: acquire returned a heap buffer with every slot free.
C24_HeapWithFreeSlots ==
    /\ ~hasMutex
    /\ lastCall.op = "acquire"
    /\ lastCall.buf = HeapBuf
    /\ \A i \in Slots : ~pool[i]

\* C30: BufferPool::acquire goes to the heap only when the pool is
\* exhausted: called with at least one slot free, it returns a pool slot
\* and marks it in use.
C30_FreeSlotIsHandedOut ==
    (lastCall.op = "acquire" /\ lastCall.free) =>
        /\ lastCall.buf \in Slots
        /\ pool[lastCall.buf]

\* With its mutex the pool hands out a free slot to the one thread.
C30_HoldsWithPoolMutex ==
    (poolMutex /\ lastCall.op = "acquire" /\ lastCall.free) =>
        /\ lastCall.buf \in Slots
        /\ pool[lastCall.buf]

(***************************************************************************)
(* SpecReset: NonBlockingConsoleBackend::resetStats called by one task     *)
(* while another task is in write.  The counters are three atomics: write  *)
(* adds to them one at a time and resetStats stores 0 into them one at a   *)
(* time, and neither takes a lock.  local[t] holds the length and the      *)
(* bytes written of the write in progress; local[Resetter].paused tells    *)
(* whether the writer stood still since resetStats began.                  *)
(***************************************************************************)
Writer == "t1"
Resetter == "t2"
ResetLengths == {1, MaxLength}

InitReset ==
    /\ InitLogger
    /\ InitObs
    /\ maxLogsPerSecond = 0
    /\ now = 0

resetFrame == <<mutexInitialized, worker, tsStats, serialMutex, semaphores,
                invoked, hasMutex, poolMutex, mutexOwner,
                isLoggingEnabled, globalLogLevel, tagLevels_, maxLogsPerSecond,
                lastLogTime, logCounter, droppedLogs, mutexTimeouts_, backends,
                subscribers, subscriberQueue, now, pool, heapUsed, obsVars>>

\* A step of the writer: it moves on, and resetStats, if in progress, was
\* not alone.
WriterStep(next, length, written) ==
    /\ pc' = [pc EXCEPT ![Writer] = next]
    /\ local' = [local EXCEPT ![Writer] = [length |-> length, written |-> written],
                              ![Resetter] = IF pc[Resetter] = "idle" THEN @
                                            ELSE [paused |-> FALSE]]

\* write(logMessage, length): Serial.availableForWrite() and the branch taken.
ResetWriteBegin ==
    /\ pc[Writer] = "idle"
    /\ nbStats.droppedMessages < MaxDropped
    /\ nbStats.partialWrites < MaxDropped
    /\ nbStats.droppedBytes <= MaxDroppedBytes
    /\ \E length \in ResetLengths :
          WriterStep(IF available < MIN_BUFFER_SPACE THEN "droppedMessages"
                     ELSE IF available >= length THEN "whole"
                     ELSE IF available - TRUNCATION_MARKER_LEN > 0 THEN "partial"
                     ELSE "droppedMessages",
                     length, 0)
    /\ UNCHANGED <<nbStats, serial, available, resetFrame>>

\* droppedMessages.fetch_add(1);
ResetDropMessage ==
    /\ pc[Writer] = "droppedMessages"
    /\ nbStats' = [nbStats EXCEPT !.droppedMessages = @ + 1]
    /\ WriterStep("droppedBytes", local[Writer].length, 0)
    /\ UNCHANGED <<serial, available, resetFrame>>

\* droppedBytes.fetch_add(length - written); return;
ResetDropBytes ==
    /\ pc[Writer] = "droppedBytes"
    /\ nbStats' = [nbStats EXCEPT
                      !.droppedBytes = @ + (local[Writer].length - local[Writer].written)]
    /\ WriterStep("idle", 0, 0)
    /\ UNCHANGED <<serial, available, resetFrame>>

\* written = Serial.write(logMessage, length); nothing is left to count.
ResetWriteWhole ==
    /\ pc[Writer] = "whole"
    /\ serial' = Bytes(local[Writer].length)
    /\ available' = available - local[Writer].length
    /\ WriterStep("idle", 0, 0)
    /\ UNCHANGED <<nbStats, resetFrame>>

\* The prefix and the marker are written; partialWrites.fetch_add(1);
ResetWritePartial ==
    /\ pc[Writer] = "partial"
    /\ LET toWrite == available - TRUNCATION_MARKER_LEN
       IN /\ serial' = Bytes(toWrite) \o Marker
          /\ available' = 0
          /\ nbStats' = [nbStats EXCEPT !.partialWrites = @ + 1]
          /\ WriterStep("droppedBytes", local[Writer].length, toWrite)
    /\ UNCHANGED resetFrame

\* resetStats(): droppedMessages.store(0);
ResetStoreMessages ==
    /\ pc[Resetter] = "idle"
    /\ nbStats # NoStats
    /\ nbStats' = [nbStats EXCEPT !.droppedMessages = 0]
    /\ pc' = [pc EXCEPT ![Resetter] = "droppedBytes"]
    /\ local' = [local EXCEPT ![Resetter] = [paused |-> pc[Writer] = "idle"]]
    /\ UNCHANGED <<serial, available, resetFrame>>

\* droppedBytes.store(0);
ResetStoreBytes ==
    /\ pc[Resetter] = "droppedBytes"
    /\ nbStats' = [nbStats EXCEPT !.droppedBytes = 0]
    /\ pc' = [pc EXCEPT ![Resetter] = "partialWrites"]
    /\ UNCHANGED <<local, serial, available, resetFrame>>

\* partialWrites.store(0); resetStats has returned.
ResetStorePartial ==
    /\ pc[Resetter] = "partialWrites"
    /\ nbStats' = [nbStats EXCEPT !.partialWrites = 0]
    /\ pc' = [pc EXCEPT ![Resetter] = "returned"]
    /\ UNCHANGED <<local, serial, available, resetFrame>>

\* The caller of resetStats has read the counters.
ResetReturned ==
    /\ pc[Resetter] = "returned"
    /\ pc' = [pc EXCEPT ![Resetter] = "idle"]
    /\ local' = [local EXCEPT ![Resetter] = NoLocal]
    /\ UNCHANGED <<nbStats, serial, available, resetFrame>>

\* The transport's free space changes.
ResetSetAvailable ==
    /\ \E a \in {0, MIN_BUFFER_SPACE, MaxAvail} : a # available /\ available' = a
    /\ UNCHANGED <<pc, local, nbStats, serial, resetFrame>>

NextReset ==
    \/ ResetWriteBegin
    \/ ResetDropMessage
    \/ ResetDropBytes
    \/ ResetWriteWhole
    \/ ResetWritePartial
    \/ ResetStoreMessages
    \/ ResetStoreBytes
    \/ ResetStorePartial
    \/ ResetReturned
    \/ ResetSetAvailable

SpecReset == InitReset /\ [][NextReset]_vars

\* resetStats has returned and no write is in progress.
AfterReset == pc[Resetter] = "returned" /\ pc[Writer] = "idle"

\* C25: resetStats() on a non-blocking backend zeros all its counters
\* atomically: after it returns every counter reads zero unless a drop
\* happened after the reset, and no interleaving with a concurrent write
\* leaves only some of the counters reset, such as dropped messages > 0
\* with dropped bytes = 0.
C25_ResetIsAtomic ==
    AfterReset =>
        /\ nbStats.droppedMessages > 0 => nbStats.droppedBytes > 0
        /\ nbStats.partialWrites > 0 => nbStats.droppedBytes > 0

\* With the writer standing still while resetStats runs, all counters read
\* zero when it returns.
C25_ZeroWhenWriterPaused ==
    (pc[Resetter] = "returned" /\ local[Resetter].paused) => nbStats = NoStats

\* A whole message was dropped while resetStats ran: its dropped-message
\* count survived the reset, its dropped bytes did not.
C25_MessagesWithoutBytes ==
    /\ AfterReset
    /\ nbStats.droppedMessages = 1
    /\ nbStats.droppedBytes = 0

\* resetStats returned after counters had been non-zero, the writer paused.
C25_PausedResetReached ==
    /\ pc[Resetter] = "returned"
    /\ local[Resetter].paused
    /\ nbStats = NoStats

(***************************************************************************)
(* SpecTags: sequences of setTagLevel calls with more tags than the table  *)
(* has entries.  lastCall records the call and the table it found.         *)
(***************************************************************************)
TagC == <<3>>
TableTags == {EmptyTag, TagA, TagB, TagC, LongTag}

TagsSetTagLevel ==
    /\ Idle
    /\ \E tag \in TableTags, level \in SetTagLevels :
          /\ SetTagLevel(tag, level)
          /\ lastCall' = [op |-> "setTagLevel", tag |-> tag, level |-> level,
                          before |-> tagLevels_]
    /\ UNCHANGED <<prevCall, override, burst, recent>>

TagsGetTagLevel ==
    /\ Idle
    /\ \E tag \in TableTags \ {EmptyTag} :
          lastCall' = [op |-> "getTagLevel", tag |-> tag, level |-> GetTagLevel(tag),
                       before |-> tagLevels_]
    /\ UNCHANGED <<codeVars, prevCall, override, burst, recent>>

NextTags ==
    \/ TagsSetTagLevel
    \/ TagsGetTagLevel
    \/ Returned

SpecTags == Init /\ [][NextTags]_vars

\* The entries of the table that belong to the tag: setTagLevel stored them
\* for it.
EntriesOf(table, tag) == {i \in 1..Len(table) : table[i].tag = StoredTag(tag)}

\* What setTagLevel(tag, level) is to do with the table it finds: update in
\* place, append while there is room, ignore the tag otherwise.
TableAfter(table, tag, level) ==
    IF tag = EmptyTag THEN table
    ELSE IF EntriesOf(table, tag) # {}
         THEN [i \in 1..Len(table) |->
                  IF i \in EntriesOf(table, tag)
                  THEN [tag |-> table[i].tag, level |-> level] ELSE table[i]]
         ELSE IF Len(table) < CONFIG_LOG_MAX_TAGS
              THEN Append(table, [tag |-> StoredTag(tag), level |-> level])
              ELSE table

OneEntryPerTag ==
    /\ Len(tagLevels_) <= CONFIG_LOG_MAX_TAGS
    /\ \A i, j \in 1..Len(tagLevels_) :
          tagLevels_[i].tag = tagLevels_[j].tag => i = j

\* C27: after any sequence of setTagLevel calls the table holds at most one
\* entry per tag (a tag set again is updated in place) and at most
\* CONFIG_LOG_MAX_TAGS entries; once full it ignores new tags and changes
\* no entry for them, and the tags it holds can still be updated.
C27_TableBoundedOneEntryPerTag ==
    /\ OneEntryPerTag
    /\ lastCall.op = "setTagLevel" =>
           tagLevels_ = TableAfter(lastCall.before, lastCall.tag, lastCall.level)

\* The same while no tag of CONFIG_LOG_SUBSCRIBER_TAG_SIZE characters or
\* more has been given to setTagLevel.
C27_HoldsWithoutLongTags ==
    (\A i \in 1..Len(tagLevels_) : tagLevels_[i].tag # StoredTag(LongTag))
    => C27_TableBoundedOneEntryPerTag

\* The table is full of entries for one tag.
C27_LongTagStoredTwice ==
    /\ Len(tagLevels_) = CONFIG_LOG_MAX_TAGS
    /\ \A i \in 1..Len(tagLevels_) : tagLevels_[i].tag = StoredTag(LongTag)

\* The full table ignored a new tag, and one of its tags was updated in place.
C27_FullTableIgnoredNewTag ==
    /\ lastCall.op = "setTagLevel"
    /\ Len(lastCall.before) = CONFIG_LOG_MAX_TAGS
    /\ EntriesOf(lastCall.before, lastCall.tag) = {}
    /\ lastCall.tag # EmptyTag
    /\ tagLevels_ = lastCall.before

(***************************************************************************)
(* SpecRegistry: sequences of addLogSubscriber and removeLogSubscriber     *)
(* calls with more callbacks than the registry has places, the null        *)
(* callback among them, while another task may hold subscriberMutex.       *)
(* lastCall records the call, the registry it found and what it returned.  *)
(***************************************************************************)
NullCallback == "nullptr"
RegistryCallbacks == {"cb1", "cb2", "cb3", "cb4", "cb5"}

\* if (callback == nullptr) return false; if (subscriberMutex && take != pdTRUE)
\* return false; the value of result otherwise.
AddLogSubscriberReturns(callback) ==
    /\ callback # NullCallback
    /\ ~hasMutex \/ TakeOk("subscriberMutex")
    /\ Len(subscribers) < MAX_SUBSCRIBERS
    /\ \A i \in 1..Len(subscribers) : subscribers[i] # callback

RemoveLogSubscriberReturns(callback) ==
    /\ callback # NullCallback
    /\ ~hasMutex \/ TakeOk("subscriberMutex")
    /\ \E i \in 1..Len(subscribers) : subscribers[i] = callback

RegistryAdd ==
    /\ Idle
    /\ \E callback \in RegistryCallbacks \cup {NullCallback} :
          /\ IF callback = NullCallback THEN UNCHANGED codeVars
             ELSE AddLogSubscriber(callback)
          /\ lastCall' = [op |-> "addLogSubscriber", callback |-> callback,
                          ret |-> AddLogSubscriberReturns(callback),
                          before |-> subscribers]
    /\ UNCHANGED <<prevCall, override, burst, recent>>

RegistryRemove ==
    /\ Idle
    /\ \E callback \in RegistryCallbacks \cup {NullCallback} :
          /\ IF callback = NullCallback THEN UNCHANGED codeVars
             ELSE RemoveLogSubscriber(callback)
          /\ lastCall' = [op |-> "removeLogSubscriber", callback |-> callback,
                          ret |-> RemoveLogSubscriberReturns(callback),
                          before |-> subscribers]
    /\ UNCHANGED <<prevCall, override, burst, recent>>

NextRegistry ==
    \/ RegistryAdd
    \/ RegistryRemove
    \/ HolderTake("subscriberMutex")
    \/ HolderGive("subscriberMutex")
    \/ Returned

SpecRegistry == Init /\ [][NextRegistry]_vars

Registered(registry, callback) ==
    \E i \in 1..Len(registry) : registry[i] = callback

\* C29: after any sequence of addLogSubscriber and removeLogSubscriber
\* calls the registry holds at most MAX_SUBSCRIBERS callbacks, none of them
\* null and no two the same; addLogSubscriber returns true exactly when it
\* stored the callback (false for a null callback, a duplicate or a full
\* registry) and removeLogSubscriber returns true exactly when the callback
\* was registered and is removed.
C29_RegistryBoundedDistinct ==
    /\ Len(subscribers) <= MAX_SUBSCRIBERS
    /\ \A i \in 1..Len(subscribers) : subscribers[i] # NullCallback
    /\ \A i, j \in 1..Len(subscribers) : subscribers[i] = subscribers[j] => i = j
    /\ lastCall.op = "addLogSubscriber" =>
          /\ lastCall.ret <=> (/\ ~Registered(lastCall.before, lastCall.callback)
                               /\ Registered(subscribers, lastCall.callback))
          /\ lastCall.ret => subscribers = Append(lastCall.before, lastCall.callback)
          /\ ~lastCall.ret => subscribers = lastCall.before
          /\ (\/ lastCall.callback = NullCallback
              \/ Registered(lastCall.before, lastCall.callback)
              \/ Len(lastCall.before) = MAX_SUBSCRIBERS) => ~lastCall.ret
    /\ lastCall.op = "removeLogSubscriber" =>
          /\ lastCall.ret <=> (/\ Registered(lastCall.before, lastCall.callback)
                               /\ ~Registered(subscribers, lastCall.callback))
          /\ ~lastCall.ret => subscribers = lastCall.before

\* A fifth callback was refused by the full registry, which kept its four.
C29_Witness ==
    /\ lastCall.op = "addLogSubscriber"
    /\ Len(lastCall.before) = MAX_SUBSCRIBERS
    /\ ~Registered(lastCall.before, lastCall.callback)
    /\ lastCall.callback # NullCallback
    /\ ~lastCall.ret
    /\ subscribers = lastCall.before

\* A registered callback was removed from the middle of the registry.
C29_RemovedReached ==
    /\ lastCall.op = "removeLogSubscriber"
    /\ lastCall.ret
    /\ Len(lastCall.before) = 3
    /\ lastCall.before[2] = lastCall.callback
    /\ subscribers = <<lastCall.before[1], lastCall.before[3]>>

(***************************************************************************)
(* SpecReenter: a backend whose write may call log on the logger that is   *)
(* writing to it (at most once per write).  Two tasks log on a logger with *)
(* mutexes; one thread logs on a logger constructed before the scheduler   *)
(* started.  No subscriber is registered and the rate is unlimited.        *)
(* local[t].stack holds the frames of the log calls of task t that have    *)
(* not returned, the innermost first; pc[t] is the position of the         *)
(* innermost, all the others are inside backend->write.  backendMutex is a *)
(* plain mutex: a take by the task that holds it waits for the timeout     *)
(* like any other.  malloc succeeds or returns null.  A task's stack has    *)
(* room for StackFrames frames of logV.                                    *)
(***************************************************************************)
StackFrames == 3
ReTasks == {"t1", "t2"}

NoFrame == [formatBuffer |-> NullBuf, fullMessage |-> NullBuf, logged |-> FALSE,
            wrote |-> FALSE]

InitReenter ==
    /\ InitFields
    /\ InitObs
    /\ hasMutex \in BOOLEAN
    /\ poolMutex = hasMutex
    /\ maxLogsPerSecond = 0
    /\ now = 0

reFixed == <<serial, available, nbStats, mutexInitialized, worker, tsStats, serialMutex,
             semaphores, invoked, hasMutex, poolMutex, isLoggingEnabled, globalLogLevel,
             tagLevels_, maxLogsPerSecond, lastLogTime, logCounter, droppedLogs,
             mutexTimeouts_, backends, subscribers, subscriberQueue, now, obsVars>>

Top(t) == Head(local[t].stack)

\* pool.acquire(): a free slot with the pool's mutex, else malloc's result.
ReAcquireChoices ==
    IF poolMutex /\ FirstFree(pool) # 0
    THEN {[buf |-> FirstFree(pool), pool |-> [pool EXCEPT ![FirstFree(pool)] = TRUE],
           heap |-> heapUsed]}
    ELSE {[buf |-> HeapBuf, pool |-> pool, heap |-> heapUsed + 1],
          [buf |-> NullBuf, pool |-> pool, heap |-> heapUsed]}

\* The log call in progress returns: into the write that made it, or to the
\* task.  result is what the call did, kept for its caller to see.
ReReturn(t) ==
    /\ pc' = [pc EXCEPT ![t] = IF Len(local[t].stack) > 1 THEN "writing" ELSE "idle"]
    /\ local' = [local EXCEPT ![t] = [stack |-> Tail(local[t].stack),
                                      nested |-> Len(local[t].stack) > 1,
                                      wrote |-> Top(t).wrote]]

\* log(ESP_LOG_INFO, TagB, ...) called by the task: it passes the filter and
\* the limiter.
ReCall(t) ==
    /\ pc[t] = "idle"
    /\ hasMutex \/ t = Caller
    /\ IsLevelEnabledForTag(TagB, ESP_LOG_INFO)
    /\ CheckRateLimit.allowed
    /\ pc' = [pc EXCEPT ![t] = "acquire1"]
    /\ local' = [local EXCEPT ![t] = [stack |-> <<NoFrame>>, nested |-> FALSE,
                                      wrote |-> FALSE]]
    /\ UNCHANGED <<mutexOwner, pool, heapUsed, reFixed>>

\* formatBuffer = pool.acquire(); if (!formatBuffer) return; notifySubscribers
\* returns at once.
ReAcquireFormat(t) ==
    /\ pc[t] = "acquire1"
    /\ \E a \in ReAcquireChoices :
          /\ pool' = a.pool /\ heapUsed' = a.heap
          /\ IF a.buf = NullBuf
             THEN ReReturn(t)
             ELSE /\ pc' = [pc EXCEPT ![t] = "acquire2"]
                  /\ local' = [local EXCEPT ![t].stack[1].formatBuffer = a.buf]
    /\ UNCHANGED <<mutexOwner, reFixed>>

\* fullMessage = pool.acquire(); without it nothing goes to the backends.
ReAcquireFull(t) ==
    /\ pc[t] = "acquire2"
    /\ \E a \in ReAcquireChoices :
          /\ pool' = a.pool /\ heapUsed' = a.heap
          /\ local' = [local EXCEPT ![t].stack[1].fullMessage = a.buf]
          /\ pc' = [pc EXCEPT ![t] = IF a.buf = NullBuf THEN "release" ELSE "take"]
    /\ UNCHANGED <<mutexOwner, reFixed>>

\* writeToBackends: without backendMutex the backends are written with no
\* lock; otherwise xSemaphoreTake(backendMutex, ...), which times out while
\* a task holds the mutex, the calling task included.
ReWriteTake(t) ==
    /\ pc[t] = "take"
    /\ IF ~hasMutex
       THEN /\ pc' = [pc EXCEPT ![t] = "writing"]
            /\ UNCHANGED mutexOwner
       ELSE IF mutexOwner["backendMutex"] = NoTask
            THEN /\ mutexOwner' = [mutexOwner EXCEPT !["backendMutex"] = t]
                 /\ pc' = [pc EXCEPT ![t] = "writing"]
            ELSE /\ pc' = [pc EXCEPT ![t] = "release"]
                 /\ UNCHANGED mutexOwner
    /\ UNCHANGED <<local, pool, heapUsed, reFixed>>

\* backend->write(message, length) calls log on the logger: a new frame, or
\* the end of the stack.
ReBackendLogs(t) ==
    /\ pc[t] = "writing"
    /\ ~Top(t).logged
    /\ IsLevelEnabledForTag(TagB, ESP_LOG_INFO)
    /\ CheckRateLimit.allowed
    /\ IF Len(local[t].stack) < StackFrames
       THEN /\ pc' = [pc EXCEPT ![t] = "acquire1"]
            /\ local' = [local EXCEPT
                            ![t].stack = <<NoFrame>>
                                         \o [local[t].stack EXCEPT ![1].logged = TRUE]]
       ELSE /\ pc' = [pc EXCEPT ![t] = "fault"]
            /\ UNCHANGED local
    /\ UNCHANGED <<mutexOwner, pool, heapUsed, reFixed>>

\* backend->write has returned; xSemaphoreGive(backendMutex) with the mutex.
ReWriteDone(t) ==
    /\ pc[t] = "writing"
    /\ mutexOwner' = IF hasMutex THEN [mutexOwner EXCEPT !["backendMutex"] = NoTask]
                     ELSE mutexOwner
    /\ pc' = [pc EXCEPT ![t] = "release"]
    /\ local' = [local EXCEPT ![t].stack[1].wrote = TRUE]
    /\ UNCHANGED <<pool, heapUsed, reFixed>>

\* pool.release(fullMessage); pool.release(formatBuffer); return.
ReRelease(t) ==
    /\ pc[t] = "release"
    /\ LET r2 == Release(pool, heapUsed, Top(t).fullMessage)
           r1 == Release(r2.pool, r2.heap, Top(t).formatBuffer)
       IN pool' = r1.pool /\ heapUsed' = r1.heap
    /\ ReReturn(t)
    /\ UNCHANGED <<mutexOwner, reFixed>>

ReStep(t) ==
    \/ ReAcquireFormat(t)
    \/ ReAcquireFull(t)
    \/ ReWriteTake(t)
    \/ ReBackendLogs(t)
    \/ ReWriteDone(t)
    \/ ReRelease(t)

NextReenter ==
    \/ \E t \in ReTasks : ReCall(t)
    \/ \E t \in ReTasks : ReStep(t)

\* The scheduler runs every ready task.
SpecReenter ==
    /\ InitReenter
    /\ [][NextReenter]_vars
    /\ \A t \in ReTasks : WF_vars(ReStep(t))

\* C28: when a backend's write calls log on the same logger there is no
\* deadlock: the nested call returns, the outer write completes, the task
\* is out of its call with backendMutex released, and log calls made later
\* by this and by other tasks find the mutex free.
C28_ReentrantWriteReturns ==
    /\ [](\A t \in ReTasks : pc[t] # "fault")
    /\ [](\A t \in ReTasks : pc[t] = "idle" => Held(t) = {})
    /\ \A t \in ReTasks : (pc[t] # "idle") ~> (pc[t] = "idle")

\* The same for the logger with mutexes.
C28_HoldsWithMutexes ==
    /\ [](hasMutex => \A t \in ReTasks : pc[t] # "fault")
    /\ [](hasMutex => \A t \in ReTasks : pc[t] = "idle" => Held(t) = {})
    /\ \A t \in ReTasks : (hasMutex /\ pc[t] # "idle") ~> (pc[t] = "idle")

\* With mutexes: the nested call has returned into the write without having
\* written, and the task still holds backendMutex for the outer write.
C28_NestedReturnedUnwritten ==
    /\ hasMutex
    /\ pc[Caller] = "writing"
    /\ local[Caller].nested
    /\ ~local[Caller].wrote
    /\ Len(local[Caller].stack) = 1
    /\ mutexOwner["backendMutex"] = Caller

\* Without mutexes: write called log, whose write called log, and so on to
\* the end of the stack.
C28_Overflowed ==
    /\ ~hasMutex
    /\ pc[Caller] = "fault"
    /\ Len(local[Caller].stack) = StackFrames

(***************************************************************************)
(* SpecWrap: the limiter across the wrap of millis().  burst.age is the    *)
(* time that has really passed since the window start (lastLogTime), which *)
(* the 32-bit timer shows modulo TimerMod; it is followed for a little     *)
(* more than one full turn of the timer.                                   *)
(***************************************************************************)
MaxAge == 11            \* burst.age is followed up to this value

InitWrap ==
    /\ InitLogger
    /\ InitObs
    /\ maxLogsPerSecond = 1
    /\ now = 0

WrapLog ==
    /\ Idle
    /\ Log(ESP_LOG_INFO, TagB)
    /\ burst' = [burst EXCEPT !.age = IF lastCall'.opened THEN 0 ELSE @,
                              !.calls = burst.age,
                              !.crossed = now < lastLogTime]
    /\ UNCHANGED <<prevCall, override, recent>>

WrapTick ==
    /\ Idle
    /\ burst.age < MaxAge
    /\ Tick
    /\ burst' = [burst EXCEPT !.age = @ + 1]
    /\ UNCHANGED <<lastCall, prevCall, override, recent>>

WrapSetMax ==
    /\ Idle
    /\ \E maxLogs \in 1..MaxRate : SetMaxLogsPerSecond(maxLogs)
    /\ UNCHANGED obsVars

WrapResetDropped ==
    /\ Idle
    /\ droppedLogs # 0
    /\ ResetDroppedLogs
    /\ UNCHANGED obsVars

NextWrap ==
    \/ WrapLog
    \/ WrapTick
    \/ WrapSetMax
    \/ WrapResetDropped
    \/ Returned

SpecWrap == InitWrap /\ [][NextWrap]_vars

\* What the call did, given the time since the window start it was made at
\* (burst.calls): a new window, or a call counted in the window in progress.
OpenedWindow == lastCall.opened /\ lastCall.admitted /\ logCounter = 1 /\ lastLogTime = now
CountedInWindow ==
    /\ ~lastCall.opened
    /\ lastCall.admitted <=> lastCall.counterBefore < maxLogsPerSecond
    /\ lastCall.admitted => logCounter = lastCall.counterBefore + 1
    /\ ~lastCall.admitted => lastCall.dropped = 1

C31_SameWindowAcrossWrap ==
    /\ lastCall.op = "log"
    /\ burst.crossed
    /\ burst.calls < RATE_LIMIT_WINDOW_MS
    /\ ~lastCall.admitted
    /\ lastCall.dropped = 1

(***************************************************************************)
(* SpecStop: the life of the notification queue.  Producer calls log,      *)
(* Starter calls startSubscriberTask and Controller calls                  *)
(* stopSubscriberTask, each step by step and at any time; the subscriber   *)
(* task runs its loop step by step: the test of the flag, xQueueReceive,   *)
(* the second test of the flag, the dispatch.  One callback is registered. *)
(* worker.msg is the message the subscriber task received, worker.seen the *)
(* flag as it read it after the receive; invoked holds the last            *)
(* notification delivered to the callback: the message and the thread.  A  *)
(* queue handle used after vQueueDelete has no defined outcome: the task   *)
(* goes on or halts ("fault"), and notes why.                              *)
(***************************************************************************)
Producer == "t1"
Starter == "t2"

\* LogSubscriberMessage dummy = {}; and the message of log(ESP_LOG_INFO, TagB, ...).
Dummy == [level |-> ESP_LOG_NONE, tag |-> EmptyTag]
Record == [level |-> ESP_LOG_INFO, tag |-> TagB]

NoSubscriberTask == [handle |-> FALSE, running |-> FALSE, pc |-> "none", tasks |-> 0,
                     msg |-> Dummy, seen |-> FALSE, why |-> "none"]

InitStop ==
    /\ hasMutex = TRUE
    /\ poolMutex = TRUE
    /\ mutexOwner = [m \in Mutexes |-> NoTask]
    /\ isLoggingEnabled = TRUE
    /\ globalLogLevel = ESP_LOG_INFO
    /\ tagLevels_ = << >>
    /\ lastLogTime = 0 /\ logCounter = 0 /\ droppedLogs = 0 /\ mutexTimeouts_ = 0
    /\ backends = <<"b1">>
    /\ subscribers = <<"cb1">>
    /\ subscriberQueue = [exists |-> FALSE, items |-> << >>]
    /\ pool = [i \in Slots |-> FALSE]
    /\ heapUsed = 0
    /\ InitObs
    /\ pc = [t \in Tasks |-> "idle"]
    /\ local = [t \in Tasks |-> NoLocal]
    /\ serial = << >> /\ available = 0 /\ nbStats = NoStats /\ tsStats = NoTSStats
    /\ invoked = << >>
    /\ mutexInitialized = TRUE /\ serialMutex = 1 /\ semaphores = {1}
    /\ worker = NoSubscriberTask
    /\ maxLogsPerSecond = 0
    /\ now = 0

stopFrame == <<mutexOwner, pool, heapUsed, isLoggingEnabled, maxLogsPerSecond,
               lastLogTime, logCounter, droppedLogs, mutexTimeouts_,
               hasMutex, poolMutex, globalLogLevel, tagLevels_, backends, now,
               serial, available, nbStats, mutexInitialized, tsStats, serialMutex,
               semaphores, obsVars>>

\* log(ESP_LOG_INFO, TagB, ...) has passed the filter and formatted its
\* message: notifySubscribers is called.
StopLog(t) ==
    /\ pc[t] = "idle"
    /\ IsLevelEnabledForTag(TagB, ESP_LOG_INFO)
    /\ pc' = [pc EXCEPT ![t] = "notify"]
    /\ local' = [local EXCEPT ![t] = [NoLocal EXCEPT !.op = "log"]]
    /\ UNCHANGED <<subscribers, subscriberQueue, worker, invoked, stopFrame>>

\* notifySubscribers: if (subscriberQueue) the message is to be sent;
\* otherwise the callbacks are invoked on the caller's thread.  The record
\* is then written and log returns.
StopNotify(t) ==
    /\ pc[t] = "notify"
    /\ IF Len(subscribers) = 0
       THEN /\ pc' = [pc EXCEPT ![t] = "idle"]
            /\ UNCHANGED invoked
       ELSE IF subscriberQueue.exists
            THEN /\ pc' = [pc EXCEPT ![t] = "send"]
                 /\ UNCHANGED invoked
            ELSE /\ pc' = [pc EXCEPT ![t] = "idle"]
                 /\ invoked' = <<[msg |-> Record, by |-> t]>>
    /\ UNCHANGED <<local, subscribers, subscriberQueue, worker, stopFrame>>

\* xQueueSend(subscriberQueue, &msg, 0); return.
StopSend(t) ==
    /\ pc[t] = "send"
    /\ IF subscriberQueue.exists
       THEN /\ subscriberQueue' = QueueSend(Record)
            /\ pc' = [pc EXCEPT ![t] = "idle"]
            /\ UNCHANGED local
       ELSE /\ UNCHANGED subscriberQueue
            /\ \E next \in {"idle", "fault"} : pc' = [pc EXCEPT ![t] = next]
            /\ local' = [local EXCEPT ![t].why = "queueDeleted"]
    /\ UNCHANGED <<subscribers, worker, invoked, stopFrame>>

\* stopSubscriberTask after its wait: the task the handle still names is
\* deleted and the handle cleared.
StopForceDelete ==
    /\ pc[Controller] = "stopWait"
    /\ worker' = IF worker.handle
                 THEN [worker EXCEPT !.handle = FALSE, !.tasks = @ - 1, !.pc = "none"]
                 ELSE worker
    /\ pc' = [pc EXCEPT ![Controller] = "stopQueue"]
    /\ UNCHANGED <<local, subscribers, subscriberQueue, invoked, stopFrame>>

\* vQueueDelete(subscriberQueue); subscriberQueue = nullptr;
StopDeleteQueue ==
    /\ pc[Controller] = "stopQueue"
    /\ subscriberQueue' = [exists |-> FALSE, items |-> << >>]
    /\ pc' = [pc EXCEPT ![Controller] = "idle"]
    /\ UNCHANGED <<local, subscribers, worker, invoked, stopFrame>>

\* subscriberTaskHandle = nullptr; vTaskDelete(nullptr);
SubscriberTaskExits == [worker EXCEPT !.handle = FALSE, !.tasks = @ - 1, !.pc = "none"]

\* while (logger->subscriberTaskRunning.load())
SubLoop ==
    /\ worker.pc = "wait"
    /\ worker' = IF worker.running THEN [worker EXCEPT !.pc = "receive"]
                 ELSE SubscriberTaskExits
    /\ UNCHANGED <<pc, local, subscribers, subscriberQueue, invoked, stopFrame>>

\* xQueueReceive(logger->subscriberQueue, &msg, pdMS_TO_TICKS(100)): a
\* message, or the timeout.
SubReceive ==
    /\ worker.pc = "receive"
    /\ IF ~subscriberQueue.exists
       THEN /\ \E next \in {"wait", "fault"} :
                  worker' = [worker EXCEPT !.pc = next, !.why = "queueDeleted"]
            /\ UNCHANGED subscriberQueue
       ELSE IF subscriberQueue.items # << >>
            THEN /\ worker' = [worker EXCEPT !.pc = "check",
                                             !.msg = Head(subscriberQueue.items)]
                 /\ subscriberQueue' = [subscriberQueue EXCEPT !.items = Tail(@)]
            ELSE /\ worker' = [worker EXCEPT !.pc = "wait"]
                 /\ UNCHANGED subscriberQueue
    /\ UNCHANGED <<pc, local, subscribers, invoked, stopFrame>>

\* if (!logger->subscriberTaskRunning.load()) break;
SubCheck ==
    /\ worker.pc = "check"
    /\ worker' = IF worker.running
                 THEN [worker EXCEPT !.pc = "dispatch", !.seen = TRUE]
                 ELSE SubscriberTaskExits
    /\ UNCHANGED <<pc, local, subscribers, subscriberQueue, invoked, stopFrame>>

\* The callbacks are copied under subscriberMutex and invoked with the
\* message; they return.
SubDispatch ==
    /\ worker.pc = "dispatch"
    /\ invoked' = IF mutexOwner["subscriberMutex"] = NoTask /\ Len(subscribers) # 0
                  THEN <<[msg |-> worker.msg, by |-> "LogSub"]>>
                  ELSE invoked
    /\ worker' = [worker EXCEPT !.pc = "wait"]
    /\ UNCHANGED <<pc, local, subscribers, subscriberQueue, stopFrame>>

NextStop ==
    \/ StopLog(Producer)
    \/ StopNotify(Producer)
    \/ StopSend(Producer)
    \/ StartCheck(Starter)
    \/ StartQueue(Starter)
    \/ StartTask(Starter)
    \/ StopBegin
    \/ StopForceDelete
    \/ StopDeleteQueue
    \/ SubLoop
    \/ SubReceive
    \/ SubCheck
    \/ SubDispatch

SpecStop == InitStop /\ [][NextStop]_vars

\* The notifications delivered to the callbacks.
Delivered == {invoked[i] : i \in 1..Len(invoked)}

\* C32: the wake sentinel that stopSubscriberTask pushes on the queue is
\* never delivered to a subscriber callback, and the subscriber task begins
\* no dispatch of a message after which it has read the stop flag as set,
\* however the calls of log, startSubscriberTask and stopSubscriberTask
\* interleave.
C32_SentinelNeverDelivered ==
    /\ \A d \in Delivered : d.msg # Dummy
    /\ worker.pc = "dispatch" => worker.seen

\* The subscriber task delivered the sentinel to the callback.
C32_SentinelDelivered ==
    \E d \in Delivered : d.by = "LogSub" /\ d.msg = Dummy

\* stopSubscriberTask has returned, the sentinel was in the queue it deleted,
\* and the message last delivered is a record.
C32_SentinelDeletedWithQueue ==
    /\ pc[Controller] = "idle"
    /\ ~subscriberQueue.exists
    /\ worker.tasks = 0
    /\ worker.msg = Dummy
    /\ \E d \in Delivered : d.by = "LogSub" /\ d.msg = Record

\* C37: no task uses the notification queue after stopSubscriberTask has
\* deleted it: a producer in notifySubscribers never sends to, and the
\* subscriber task never receives from, a queue that was already deleted.
C37_NoUseAfterDelete ==
    /\ local[Producer].why # "queueDeleted"
    /\ worker.why # "queueDeleted"

\* The producer saw the queue, stopSubscriberTask deleted it, and the
\* producer's xQueueSend used the deleted queue.
C37_ProducerSentToDeleted ==
    /\ local[Producer].why = "queueDeleted"
    /\ pc[Controller] = "idle"
    /\ ~subscriberQueue.exists

\* A subscriber task, started while stopSubscriberTask was on its way,
\* called xQueueReceive after the queue was deleted.
C37_WorkerReceivedFromDeleted ==
    /\ worker.why = "queueDeleted"
    /\ worker.tasks = 1

\* No call of startSubscriberTask or stopSubscriberTask is in progress.
NotifierAtRest == pc[Starter] = "idle" /\ pc[Controller] = "idle"

\* C38: whenever the notification queue exists, a subscriber task exists to
\* drain it: after startSubscriberTask has returned false the notifier is
\* inactive, and a notification made then is delivered on the caller's
\* thread, not left in a queue.
C38_QueueHasWorker ==
    /\ NotifierAtRest /\ subscriberQueue.exists => worker.tasks > 0
    /\ NotifierAtRest /\ local[Starter].op = "start" /\ local[Starter].why = "false"
          => NotifierInactive

\* startSubscriberTask returned false because the task could not be
\* created, and a record notified afterwards sits in the queue, with no
\* subscriber task and nothing delivered.
C38_LeftInQueue ==
    /\ NotifierAtRest
    /\ local[Starter].op = "start" /\ local[Starter].why = "false"
    /\ worker.tasks = 0
    /\ pc[Producer] = "idle"
    /\ subscriberQueue.exists
    /\ Record \in {subscriberQueue.items[i] : i \in 1..Len(subscriberQueue.items)}
    /\ invoked = << >>

\* startSubscriberTask returned false because the queue could not be
\* created: the notifier is inactive and the record was delivered on the
\* producer's thread.
C38_FallbackAfterQueueFailure ==
    /\ NotifierAtRest
    /\ local[Starter].op = "start" /\ local[Starter].why = "false"
    /\ NotifierInactive
    /\ \E d \in Delivered : d.by = Producer /\ d.msg = Record

\* C36 as claimed: once removeLogSubscriber(cb) has returned true, cb is not
\* invoked again, also by a notification that was being dispatched when cb
\* was removed: a callback is registered at the moment it is invoked.
C36_Claimed ==
    [][\A t \in CbTasks :
          (pc[t] = "cbInvoke" /\ pc'[t] = "callback")
             => \E i \in 1..Len(subscribers) : subscribers[i] = Head(local[t].todo)]_vars

\* C36 amended: a notification invokes the callbacks that were registered
\* when it copied its snapshot, and no others; so a callback removed before
\* the copy is not invoked by it, and one removed after the copy still is.
C36_InvokedFromSnapshot ==
    /\ [][\A t \in CbTasks :
             (pc[t] = "cbCopy" /\ pc'[t] = "cbInvoke")
                => local'[t].snapshot = subscribers]_vars
    /\ [](\A t \in CbTasks :
             pc[t] = "callback"
                => \E i \in 1..Len(local[t].snapshot) :
                      local[t].snapshot[i] = local[t].done[Len(local[t].done)])

\* cb1 was removed while the subscriber task was dispatching: it is not
\* registered, and the task is about to invoke it from its snapshot.
C36_Witness ==
    /\ worker.handle
    /\ pc[LogSub] = "cbInvoke"
    /\ local[LogSub].todo # << >>
    /\ Head(local[LogSub].todo) = "cb1"
    /\ \A i \in 1..Len(subscribers) : subscribers[i] # "cb1"

\* The same in the synchronous fallback, on the caller's thread.
C36_RemovedDuringSyncDispatch ==
    /\ ~worker.handle
    /\ pc[Caller] = "cbInvoke"
    /\ local[Caller].todo # << >>
    /\ \A i \in 1..Len(subscribers) : subscribers[i] # Head(local[Caller].todo)

\* C35: for every non-empty tag, tags of CONFIG_LOG_SUBSCRIBER_TAG_SIZE
\* characters or more included, getTagLevel(tag) after setTagLevel(tag, L)
\* returns L while the table has room (or holds the tag already), and a
\* second setTagLevel of the tag updates its entry and adds none.
C35_SetThenGetReturnsLevel ==
    (lastCall.op = "setTagLevel" /\ lastCall.tag # EmptyTag) =>
        /\ (Len(lastCall.before) < CONFIG_LOG_MAX_TAGS
              \/ EntriesOf(lastCall.before, lastCall.tag) # {})
           => GetTagLevel(lastCall.tag) = lastCall.level
        /\ EntriesOf(lastCall.before, lastCall.tag) # {}
           => Len(tagLevels_) = Len(lastCall.before)

\* The same for the tags that fit an entry untruncated.
C35_HoldsForShortTags ==
    lastCall.tag # LongTag => C35_SetThenGetReturnsLevel

\* setTagLevel stored the long tag in an empty table, and getTagLevel of
\* the same tag does not return the level.
C35_LongTagNotFound ==
    /\ lastCall.op = "setTagLevel"
    /\ lastCall.tag = LongTag
    /\ lastCall.before = << >>
    /\ tagLevels_ = <<[tag |-> StoredTag(LongTag), level |-> lastCall.level]>>
    /\ GetTagLevel(LongTag) # lastCall.level

\* A short tag set for the second time: its entry was updated in place.
C35_ShortTagUpdated ==
    /\ lastCall.op = "setTagLevel"
    /\ lastCall.tag = TagA
    /\ EntriesOf(lastCall.before, TagA) # {}
    /\ \E i \in 1..Len(lastCall.before) : lastCall.before[i].level # lastCall.level
    /\ Len(tagLevels_) = Len(lastCall.before)
    /\ GetTagLevel(TagA) = lastCall.level

(***************************************************************************)
(* SpecCompose: what the logging operations hand to writeToBackends.  A    *)
(* call that has passed the filter and the limiter and has its buffers     *)
(* formats a message of msgLen characters and puts a prefix of prefixLen   *)
(* characters ("[millis][task][level] tag: ") before it.  Buffers have     *)
(* CONFIG_LOG_BUFFER_SIZE bytes, scaled down here.  lastCall records the   *)
(* operation, the length passed to the backends' write and the number of   *)
(* bytes the buffer passed with it holds before its terminator.            *)
(***************************************************************************)
CONFIG_LOG_BUFFER_SIZE == 8
MaxMessage == 10         \* the longest message formatted
MaxPrefix == 3           \* the longest prefix
LineEnd == 2             \* "\r\n"

\* snprintf(buffer, size, ...) of wanted characters: it returns wanted and
\* leaves at most size - 1 of them in the buffer, and the terminator.
Snprintf(size, wanted) == [ret |-> wanted, held |-> Min(wanted, size - 1)]

\* vsnprintf(formatBuffer, CONFIG_LOG_BUFFER_SIZE, format, args): the bytes
\* of the message that formatBuffer holds.
FormatBuffer(msgLen) == Snprintf(CONFIG_LOG_BUFFER_SIZE, msgLen).held

\* logV: the length is brought down to CONFIG_LOG_BUFFER_SIZE - 1 when the
\* record was truncated.
ComposeLogV(prefixLen, msgLen) ==
    LET s == Snprintf(CONFIG_LOG_BUFFER_SIZE, prefixLen + FormatBuffer(msgLen) + LineEnd)
    IN [length |-> IF s.ret >= CONFIG_LOG_BUFFER_SIZE THEN CONFIG_LOG_BUFFER_SIZE - 1
                   ELSE s.ret,
        held |-> s.held]

\* logNnL: writeToBackends(fullMessage, len) with what snprintf returned.
ComposeLogNnL(prefixLen, msgLen) ==
    LET s == Snprintf(CONFIG_LOG_BUFFER_SIZE, prefixLen + FormatBuffer(msgLen))
    IN [length |-> s.ret, held |-> s.held]

\* logInL: writeToBackends(formatBuffer, strlen(formatBuffer)).
ComposeLogInL(prefixLen, msgLen) ==
    [length |-> FormatBuffer(msgLen), held |-> FormatBuffer(msgLen)]

\* logDirect: the message itself is formatted into fullMessage; the length
\* is what snprintf returned.
ComposeLogDirect(prefixLen, msgLen) ==
    LET s == Snprintf(CONFIG_LOG_BUFFER_SIZE, prefixLen + msgLen + LineEnd)
    IN [length |-> s.ret, held |-> s.held]

Composed(op, prefixLen, msgLen) ==
    CASE op = "log" -> ComposeLogV(prefixLen, msgLen)
      [] op = "logNnL" -> ComposeLogNnL(prefixLen, msgLen)
      [] op = "logInL" -> ComposeLogInL(prefixLen, msgLen)
      [] op = "logDirect" -> ComposeLogDirect(prefixLen, msgLen)

ComposeCall(op) ==
    /\ Idle
    /\ \E prefixLen \in 1..MaxPrefix, msgLen \in 0..MaxMessage :
          lastCall' = [op |-> op, prefixLen |-> prefixLen, msgLen |-> msgLen,
                       wrote |-> Composed(op, prefixLen, msgLen)]
    /\ UNCHANGED <<codeVars, prevCall, override, burst, recent>>

ComposeLog == ComposeCall("log")
ComposeNnL == ComposeCall("logNnL")
ComposeInL == ComposeCall("logInL")
ComposeDirect == ComposeCall("logDirect")

NextCompose ==
    \/ ComposeLog
    \/ ComposeNnL
    \/ ComposeInL
    \/ ComposeDirect
    \/ Returned

SpecCompose == Init /\ [][NextCompose]_vars

ComposeOps == {"log", "logNnL", "logInL", "logDirect"}

\* C34: for log, logNnL, logInL and logDirect and every message length, the
\* length passed to a backend's write is at most the number of bytes the
\* composed buffer holds, which is at most CONFIG_LOG_BUFFER_SIZE - 1.
C34_LengthWithinBuffer ==
    lastCall.op \in ComposeOps =>
        /\ lastCall.wrote.length <= lastCall.wrote.held
        /\ lastCall.wrote.held <= CONFIG_LOG_BUFFER_SIZE - 1

\* The same for log and logInL alone.
C34_HoldsForLogAndLogInL ==
    lastCall.op \in {"log", "logInL"} => C34_LengthWithinBuffer

\* log truncated a record and passed CONFIG_LOG_BUFFER_SIZE - 1.
C34_LogClamped ==
    /\ lastCall.op = "log"
    /\ lastCall.prefixLen + lastCall.msgLen + LineEnd > CONFIG_LOG_BUFFER_SIZE
    /\ lastCall.wrote.length = CONFIG_LOG_BUFFER_SIZE - 1
    /\ lastCall.wrote.held = CONFIG_LOG_BUFFER_SIZE - 1

\* logNnL and logDirect passed a length beyond the end of the buffer.
C34_LogNnLOverrun ==
    /\ lastCall.op = "logNnL"
    /\ lastCall.wrote.length >= CONFIG_LOG_BUFFER_SIZE

C34_LogDirectOverrun ==
    /\ lastCall.op = "logDirect"
    /\ lastCall.wrote.length > CONFIG_LOG_BUFFER_SIZE + MaxPrefix

(***************************************************************************)
(* SpecBuf: the buffers of the logging operations.  Two tasks call log,    *)
(* logV, logNnL, logInL and logDirect at any time, step by step, on a pool *)
(* smaller than their demand: an acquire hands out a free slot, or a       *)
(* buffer from the heap, or nothing.  log, logV and logNnL take            *)
(* formatBuffer and then fullMessage; logInL takes formatBuffer and writes *)
(* it; logDirect takes fullMessage only.  A call is filtered, rate         *)
(* limited, left without a buffer or without backendMutex on the way.  The *)
(* steps after the filter are those of SpecLive.                           *)
(***************************************************************************)
BufOps == {"log", "logV", "logNnL", "logInL", "logDirect"}

InitBuf ==
    /\ InitLogger
    /\ InitObs
    /\ maxLogsPerSecond \in {0, 1}
    /\ now = 0

BufCall(t) ==
    /\ pc[t] = "idle"
    /\ \E op \in BufOps, format \in {"ok", "null"} :
          /\ op = "logDirect" => format = "ok"
          /\ op # "logDirect" => droppedLogs < LiveDropped
          /\ local' = [local EXCEPT ![t] = [NoLocal EXCEPT !.op = op, !.format = format]]
    /\ pc' = [pc EXCEPT ![t] = "filter"]
    /\ UNCHANGED <<mutexOwner, isLoggingEnabled, maxLogsPerSecond, lastLogTime,
                   logCounter, droppedLogs, mutexTimeouts_, subscribers,
                   subscriberQueue, pool, heapUsed, worker, liveFixed>>

\* isLevelEnabledForTag(tag, level); logInL tests isLoggingEnabled alone,
\* and logDirect has no rate limit.
BufFilter(t) ==
    /\ pc[t] = "filter"
    /\ IF IF local[t].op = "logInL" THEN ~isLoggingEnabled
          ELSE ~IsLevelEnabledForTag(TagB, ESP_LOG_INFO)
       THEN /\ pc' = [pc EXCEPT ![t] = "idle"]
            /\ local' = [local EXCEPT ![t] = NoLocal]
       ELSE /\ pc' = [pc EXCEPT ![t] = IF local[t].op = "logDirect" THEN "notify"
                                       ELSE "rate"]
            /\ local' = local
    /\ UNCHANGED <<mutexOwner, isLoggingEnabled, maxLogsPerSecond, lastLogTime,
                   logCounter, droppedLogs, mutexTimeouts_, subscribers,
                   subscriberQueue, pool, heapUsed, worker, liveFixed>>

\* notifySubscribers returns (no subscriber is registered); logInL goes on
\* to write formatBuffer, the others to acquire fullMessage.
BufNotify(t) ==
    /\ pc[t] = "notify"
    /\ pc' = [pc EXCEPT ![t] = IF local[t].op = "logInL" THEN "take" ELSE "acquire2"]
    /\ UNCHANGED <<local, mutexOwner, isLoggingEnabled, maxLogsPerSecond, lastLogTime,
                   logCounter, droppedLogs, mutexTimeouts_, subscribers,
                   subscriberQueue, pool, heapUsed, worker, liveFixed>>

BufStep(t) ==
    \/ BufFilter(t)
    \/ LiveRate(t)
    \/ LiveAcquireFormat(t)
    \/ LiveFormat(t)
    \/ BufNotify(t)
    \/ LiveAcquireFull(t)
    \/ LiveWriteTake(t)
    \/ LiveWriteTimeout(t)
    \/ LiveWriteDone(t)
    \/ LiveRelease(t)

NextBuf ==
    \/ \E t \in Producers : BufCall(t)
    \/ \E t \in Producers : BufStep(t)
    \/ \E enable \in BOOLEAN : LiveEnableLogging(enable)

SpecBuf == InitBuf /\ [][NextBuf]_vars

\* The buffers the tasks hold: a task and the variable that holds it.
HeldBuffers ==
    {h \in Tasks \X {"formatBuffer", "fullMessage"} :
        local[h[1]][h[2]] \notin {0, NullBuf}}

\* C33: every buffer acquired inside log, logV, logNnL, logInL or logDirect
\* is released exactly once before the call returns, on every path: the
\* slots in use and the heap buffers alive are those the calls in progress
\* hold, no slot is held twice, and when no logging call is in progress
\* every slot of the pool is free and no heap buffer is alive.
C33_BuffersReleasedOnce ==
    /\ Cardinality(HeldBuffers) = Cardinality({i \in Slots : pool[i]}) + heapUsed
    /\ \A g, h \in HeldBuffers :
          local[g[1]][g[2]] \in Slots /\ local[g[1]][g[2]] = local[h[1]][h[2]] => g = h
    /\ \A h \in HeldBuffers : local[h[1]][h[2]] \in Slots => pool[local[h[1]][h[2]]]
    /\ (\A t \in Tasks : pc[t] = "idle") =>
          (\A i \in Slots : ~pool[i]) /\ heapUsed = 0

\* log could not get its second buffer: it is about to return with
\* formatBuffer, from the heap, still to be released, the two slots being
\* held by another call.
C33_Witness ==
    \E t \in Tasks :
        /\ pc[t] = "release"
        /\ local[t].op = "log"
        /\ local[t].fullMessage = NullBuf
        /\ local[t].formatBuffer = HeapBuf
        /\ \A i \in Slots : pool[i]

\* All calls have returned after the pool and the heap were both in use.
C33_AllReturned ==
    /\ \A t \in Tasks : pc[t] = "idle"
    /\ logCounter = 1
    /\ droppedLogs = LiveDropped
    /\ \A i \in Slots : ~pool[i]

(***************************************************************************)
(* SpecNest: the synchronous fallback with a callback that calls log.  No  *)
(* subscriber task was started; cb1 is registered and, when invoked, may   *)
(* call log on the logger once before it returns.  Two tasks call log.     *)
(* local[t].stack holds the frames of the log calls of task t that have    *)
(* not returned, the innermost first; pc[t] is the position of the         *)
(* innermost, all the others are inside the callback.  The limit is any    *)
(* value from unlimited to the number of frames a task's stack has room    *)
(* for (StackFrames); time stands still.  malloc succeeds or returns null. *)
(***************************************************************************)
InitNest ==
    /\ hasMutex = TRUE
    /\ poolMutex = TRUE
    /\ mutexOwner = [m \in Mutexes |-> NoTask]
    /\ isLoggingEnabled = TRUE
    /\ globalLogLevel = ESP_LOG_INFO
    /\ tagLevels_ = << >>
    /\ lastLogTime = 0 /\ logCounter = 0 /\ droppedLogs = 0 /\ mutexTimeouts_ = 0
    /\ backends = <<"b1">>
    /\ subscribers = <<"cb1">>
    /\ subscriberQueue = [exists |-> FALSE, items |-> << >>]
    /\ pool = [i \in Slots |-> FALSE]
    /\ heapUsed = 0
    /\ InitTasks
    /\ InitObs
    /\ maxLogsPerSecond \in 0..StackFrames
    /\ now = 0

nestFixed == <<serial, available, nbStats, mutexInitialized, worker, tsStats, serialMutex,
               semaphores, invoked, hasMutex, poolMutex, isLoggingEnabled, globalLogLevel,
               tagLevels_, maxLogsPerSecond, backends, subscribers, subscriberQueue, now,
               obsVars>>

\* if (!isLevelEnabledForTag(tag, level)) return; if (!checkRateLimit()) return;
NestAdmit ==
    LET r == CheckRateLimit
    IN /\ lastLogTime' = r.lastLogTime
       /\ logCounter' = r.logCounter
       /\ droppedLogs' = r.droppedLogs
       /\ mutexTimeouts_' = r.mutexTimeouts_

\* The log call in progress returns: into the callback that made it, or to
\* the task.
NestReturn(t) ==
    /\ pc' = [pc EXCEPT ![t] = IF Len(local[t].stack) > 1 THEN "callback" ELSE "idle"]
    /\ local' = [local EXCEPT ![t] = [stack |-> Tail(local[t].stack),
                                      nested |-> Len(local[t].stack) > 1,
                                      wrote |-> Top(t).wrote]]

\* log(ESP_LOG_INFO, TagB, ...) called by the task.
NestCall(t) ==
    /\ pc[t] = "idle"
    /\ droppedLogs < MaxDropped
    /\ IsLevelEnabledForTag(TagB, ESP_LOG_INFO)
    /\ NestAdmit
    /\ IF CheckRateLimit.allowed
       THEN /\ pc' = [pc EXCEPT ![t] = "acquire1"]
            /\ local' = [local EXCEPT ![t] = [stack |-> <<NoFrame>>, nested |-> FALSE,
                                              wrote |-> FALSE]]
       ELSE UNCHANGED <<pc, local>>
    /\ UNCHANGED <<mutexOwner, pool, heapUsed, nestFixed>>

\* formatBuffer = pool.acquire(); if (!formatBuffer) return; vsnprintf.
NestAcquireFormat(t) ==
    /\ pc[t] = "acquire1"
    /\ \E a \in ReAcquireChoices :
          /\ pool' = a.pool /\ heapUsed' = a.heap
          /\ IF a.buf = NullBuf
             THEN NestReturn(t)
             ELSE /\ pc' = [pc EXCEPT ![t] = "notify"]
                  /\ local' = [local EXCEPT ![t].stack[1].formatBuffer = a.buf]
    /\ UNCHANGED <<mutexOwner, lastLogTime, logCounter, droppedLogs, mutexTimeouts_,
                   nestFixed>>

\* notifySubscribers without a queue: the callbacks are copied under
\* subscriberMutex, the mutex is given back and the callback is invoked; when
\* the take times out there is no notification.
NestNotify(t) ==
    /\ pc[t] = "notify"
    /\ pc' = [pc EXCEPT ![t] = IF Len(subscribers) # 0 /\ TakeOk("subscriberMutex")
                               THEN "callback" ELSE "acquire2"]
    /\ UNCHANGED <<local, mutexOwner, pool, heapUsed, lastLogTime, logCounter,
                   droppedLogs, mutexTimeouts_, nestFixed>>

\* The callback calls log: the call is refused by the limiter, or goes on in
\* a new frame, or there is no room for the frame on the task's stack.
NestCallbackLogs(t) ==
    /\ pc[t] = "callback"
    /\ ~Top(t).logged
    /\ droppedLogs < MaxDropped
    /\ IsLevelEnabledForTag(TagB, ESP_LOG_INFO)
    /\ NestAdmit
    /\ IF ~CheckRateLimit.allowed
       THEN /\ local' = [local EXCEPT ![t].stack[1].logged = TRUE]
            /\ UNCHANGED pc
       ELSE IF Len(local[t].stack) < StackFrames
            THEN /\ pc' = [pc EXCEPT ![t] = "acquire1"]
                 /\ local' = [local EXCEPT
                                 ![t].stack = <<NoFrame>>
                                              \o [local[t].stack EXCEPT ![1].logged = TRUE]]
            ELSE /\ pc' = [pc EXCEPT ![t] = "fault"]
                 /\ UNCHANGED local
    /\ UNCHANGED <<mutexOwner, pool, heapUsed, nestFixed>>

\* The callback returns into notifySubscribers, which returns into logV.
NestCallbackReturns(t) ==
    /\ pc[t] = "callback"
    /\ pc' = [pc EXCEPT ![t] = "acquire2"]
    /\ UNCHANGED <<local, mutexOwner, pool, heapUsed, lastLogTime, logCounter,
                   droppedLogs, mutexTimeouts_, nestFixed>>

\* pool.release(fullMessage); pool.release(formatBuffer); return.
NestRelease(t) ==
    /\ pc[t] = "release"
    /\ LET r2 == Release(pool, heapUsed, Top(t).fullMessage)
           r1 == Release(r2.pool, r2.heap, Top(t).formatBuffer)
       IN pool' = r1.pool /\ heapUsed' = r1.heap
    /\ NestReturn(t)
    /\ UNCHANGED <<mutexOwner, lastLogTime, logCounter, droppedLogs, mutexTimeouts_,
                   nestFixed>>

NestStep(t) ==
    \/ NestAcquireFormat(t)
    \/ NestNotify(t)
    \/ NestCallbackLogs(t)
    \/ NestCallbackReturns(t)
    \/ ReAcquireFull(t)
    \/ ReWriteTake(t)
    \/ ReWriteDone(t)
    \/ NestRelease(t)

NextNest ==
    \/ \E t \in ReTasks : NestCall(t)
    \/ \E t \in ReTasks : NestStep(t)

SpecNest == InitNest /\ [][NextNest]_vars

\* C39: in the synchronous fallback a log call whose subscriber callback
\* calls log on the same logger terminates for every rate-limit setting,
\* unlimited included: the nesting of log, notification and callback stays
\* within the task's stack.
C39_NestingBounded ==
    \A t \in ReTasks : pc[t] # "fault"

\* The same with a limit below the number of frames the stack holds.
C39_HoldsWithSmallLimit ==
    (maxLogsPerSecond > 0 /\ maxLogsPerSecond < StackFrames) => C39_NestingBounded

\* Unlimited rate: the callback's log call notified the callback, whose log
\* call notified the callback, and so on to the end of the stack.
C39_Overflowed ==
    /\ maxLogsPerSecond = 0
    /\ pc[Caller] = "fault"
    /\ Len(local[Caller].stack) = StackFrames

\* The limiter refused the callback's log call and the nesting ended there.
C39_LimiterEndedNesting ==
    /\ maxLogsPerSecond = 2
    /\ pc[Caller] = "callback"
    /\ Len(local[Caller].stack) = 2
    /\ Top(Caller).logged
    /\ droppedLogs = 1

(***************************************************************************)
(* SpecConstruct: the constructors of SpecEnsure, and a write on its       *)
(* backend by every task whose constructor has returned.  local[t].wrote   *)
(* is what the task's last write did: "written", or "flag" when it         *)
(* returned at the test of mutexInitialized, or "handle" when it found no  *)
(* mutex in the handle.                                                    *)
(***************************************************************************)
\* if (!mutexInitialized.load() || !logMessage) return;
\* SemaphoreHandle_t mutex = serialMutex.load(); if (!mutex) return;
WriteOutcome ==
    IF ~mutexInitialized THEN "flag"
    ELSE IF serialMutex = 0 THEN "handle"
    ELSE "written"

ConstructWrite(t) ==
    /\ pc[t] = "idle"
    /\ local[t].calls > 0
    /\ local' = [local EXCEPT ![t] = [newMutex |-> local[t].newMutex,
                                      calls |-> local[t].calls,
                                      created |-> local[t].created,
                                      wrote |-> WriteOutcome]]
    /\ UNCHANGED <<pc, mutexInitialized, serialMutex, semaphores, ensureFrame>>

NextConstruct ==
    \/ \E t \in Tasks : EnsureBegin(t)
    \/ \E t \in Tasks : EnsureCreate(t)
    \/ \E t \in Tasks : EnsureCas(t)
    \/ \E t \in Tasks : EnsureStore(t)
    \/ \E t \in Tasks : EnsureDelete(t)
    \/ \E t \in Tasks : ConstructWrite(t)

SpecConstruct == InitEnsure /\ [][NextConstruct]_vars

\* Task t has written on the backend it constructed.
HasWritten(t) == local[t].calls > 0 /\ "wrote" \in DOMAIN local[t]

\* C40: once the constructor of a backend has returned and a mutex could be
\* created, a write on that backend is never discarded for the reason that
\* the shared mutex is not marked initialised, also when several backends
\* are constructed at the same time by different tasks.
C40_NoWriteLostToFlag ==
    \A t \in Tasks :
        (HasWritten(t) /\ local[t].created) => local[t].wrote # "flag"

\* The same once every constructor has returned.
C40_HoldsAfterAllConstructed ==
    (Constructed /\ \E t \in Tasks : local[t].calls > 0 /\ local[t].created)
       => WriteOutcome = "written"

\* A task lost the compare-and-swap, deleted its mutex and returned from
\* the constructor; its write found the winner's mutex installed and the
\* flag not yet stored, and was discarded.
C40_LostToFlag ==
    \E t, w \in Tasks :
        /\ HasWritten(t)
        /\ local[t].created
        /\ local[t].wrote = "flag"
        /\ local[t].newMutex \notin {0, serialMutex}
        /\ pc[w] = "store"
        /\ serialMutex = local[w].newMutex

\* The winner's backend wrote.
C40_WinnerWrote ==
    \E t \in Tasks :
        /\ HasWritten(t)
        /\ local[t].newMutex = serialMutex
        /\ serialMutex # 0
        /\ local[t].wrote = "written"
====
